---- MODULE Spec2Model ----
(***************************************************************************)
(* A model of the aorta shell's command interpretation engine: the         *)
(* pipeline parser (shell/pipeline.rs), the pipeline executor, the         *)
(* command dispatcher (core/commands/mod.rs), the process spawner          *)
(* (process/executor.rs) and the interactive loop (shell/mod.rs).          *)
(*                                                                         *)
(* Text is modelled as a sequence of one-character strings, so that        *)
(* trimming, whitespace splitting and operator recognition are computed    *)
(* character by character as the Rust code computes them.                  *)
(***************************************************************************)
EXTENDS Integers, Sequences, FiniteSets, TLC

(***************************************************************************)
(* Bounds                                                                  *)
(***************************************************************************)
MaxLen == 5
MaxExpand == 3
MaxStages == 2
MaxLines == 2

(***************************************************************************)
(* Text helpers (Rust str::trim, str::split_whitespace, slice::join)       *)
(***************************************************************************)
\* char::is_whitespace for the characters of the model
WhiteSpace == {" ", "\t", "\n", "\r"}

\* char::is_whitespace knowing the space character only
IsWS_space_only(c) == c = " "

IsWS(c) == c \in WhiteSpace

IsBlank(s) == \A i \in 1..Len(s) : IsWS(s[i])

RECURSIVE TrimStart(_)
TrimStart(s) ==
    IF s = <<>> THEN <<>>
    ELSE IF IsWS(Head(s)) THEN TrimStart(Tail(s)) ELSE s

RECURSIVE TrimEnd(_)
TrimEnd(s) ==
    IF s = <<>> THEN <<>>
    ELSE IF IsWS(s[Len(s)]) THEN TrimEnd(SubSeq(s, 1, Len(s) - 1)) ELSE s

Trim(s) == TrimEnd(TrimStart(s))

\* split_whitespace: the maximal runs of non-whitespace characters, in order
RECURSIVE SplitWS(_, _, _)
SplitWS(s, cur, acc) ==
    IF s = <<>> THEN (IF cur = <<>> THEN acc ELSE Append(acc, cur))
    ELSE IF IsWS(Head(s))
         THEN SplitWS(Tail(s), <<>>, IF cur = <<>> THEN acc ELSE Append(acc, cur))
         ELSE SplitWS(Tail(s), Append(cur, Head(s)), acc)

SplitWhitespace(s) == SplitWS(s, <<>>, <<>>)

\* join(" ")
RECURSIVE JoinSp(_)
JoinSp(ws) ==
    IF ws = <<>> THEN <<>>
    ELSE IF Len(ws) = 1 THEN ws[1]
    ELSE ws[1] \o <<" ">> \o JoinSp(Tail(ws))

(***************************************************************************)
(* Pipeline parser                                                         *)
(***************************************************************************)
PipelineOperator == {"Pipe", "And", "Or", "Sequence", "Redirect"}

PipelineStage(c, a, o) == [command |-> c, args |-> a, operator |-> o]

\* PipelineError::ParseError taken for an accepted pipeline of no stage
ParseError_accepted(m) == [ok |-> TRUE, stages |-> <<>>]

ParseError(m) == [ok |-> FALSE, err |-> "ParseError", msg |-> m]

\* add_stage keeping the command among the arguments (parts[0..])
add_stage_keeps_command(stages, command_str, operator) ==
    LET trimmed == Trim(command_str)
        parts   == SplitWhitespace(trimmed)
    IN  IF trimmed = <<>> THEN ParseError("Empty command")
        ELSE IF parts = <<>> THEN ParseError("Empty command")
        ELSE [ok |-> TRUE,
              stages |-> Append(stages,
                                PipelineStage(parts[1], parts, operator))]

\* Pipeline::add_stage: Ok carries the extended stage list
add_stage(stages, command_str, operator) ==
    LET trimmed == Trim(command_str)
        parts   == SplitWhitespace(trimmed)
    IN  IF trimmed = <<>> THEN ParseError("Empty command")
        ELSE IF parts = <<>> THEN ParseError("Empty command")
        ELSE [ok |-> TRUE,
              stages |-> Append(stages,
                                PipelineStage(parts[1], Tail(parts), operator))]

\* remaining.trim().is_empty() never found true
RestBlank_never(input, i) == FALSE

\* remaining.trim().is_empty() for the characters after position i
RestBlank(input, i) == IsBlank(SubSeq(input, i + 1, Len(input)))

\* The scan of Pipeline::parse from position i with the stages and the
\* current_command accumulated so far.
RECURSIVE ParseFrom(_, _, _, _)
ParseFrom(input, i, stages, cur) ==
    IF i > Len(input)
    THEN IF ~IsBlank(cur)
         THEN add_stage(stages, cur, "None")
         ELSE IF stages = <<>> THEN ParseError("Empty pipeline")
              ELSE [ok |-> TRUE, stages |-> stages]
    ELSE
    LET c    == input[i]
        peek == IF i + 1 <= Len(input) THEN input[i + 1] ELSE "EOF"
        emit(op, next) ==
            LET r == add_stage(stages, cur, op)
            IN  IF r.ok THEN ParseFrom(input, next, r.stages, <<>>) ELSE r
    IN  IF c = "|" THEN
            IF peek = "|" THEN emit("Or", i + 2)
            ELSE IF RestBlank(input, i)
                 THEN ParseError("Incomplete pipeline: missing command after |")
                 ELSE emit("Pipe", i + 1)
        ELSE IF c = "&" /\ peek = "&" THEN
            IF RestBlank(input, i + 1)
            THEN ParseError("Incomplete command: missing command after &&")
            ELSE emit("And", i + 2)
        ELSE IF c = ";" THEN emit("Sequence", i + 1)
        ELSE IF c = ">" THEN emit("Redirect", i + 1)
        ELSE ParseFrom(input, i + 1, stages, Append(cur, c))

Parse(input) == ParseFrom(input, 1, <<>>, <<>>)

(***************************************************************************)
(* More text helpers                                                       *)
(***************************************************************************)
\* str::find(ch): the first position of ch, 0 when absent
RECURSIVE FindFrom(_, _, _)
FindFrom(s, ch, i) ==
    IF i > Len(s) THEN 0
    ELSE IF s[i] = ch THEN i ELSE FindFrom(s, ch, i + 1)

Find(s, ch) == FindFrom(s, ch, 1)

\* str::split_once(ch)
SplitOnce(s, ch) ==
    LET i == Find(s, ch)
    IN  IF i = 0 THEN [found |-> FALSE, before |-> s, after |-> <<>>]
        ELSE [found |-> TRUE,
              before |-> SubSeq(s, 1, i - 1),
              after  |-> SubSeq(s, i + 1, Len(s))]

IsQuote(c) == c \in {"'", "\""}

\* str::trim_matches(|c| c == '\'' || c == '"'): every quote at both ends
RECURSIVE TrimQuotesStart(_)
TrimQuotesStart(s) ==
    IF s = <<>> THEN <<>>
    ELSE IF IsQuote(Head(s)) THEN TrimQuotesStart(Tail(s)) ELSE s

RECURSIVE TrimQuotesEnd(_)
TrimQuotesEnd(s) ==
    IF s = <<>> THEN <<>>
    ELSE IF IsQuote(s[Len(s)]) THEN TrimQuotesEnd(SubSeq(s, 1, Len(s) - 1)) ELSE s

TrimMatchesQuotes(s) == TrimQuotesEnd(TrimQuotesStart(s))

\* value.starts_with(q) && value.ends_with(q) for one of the two quote
\* characters q
QuotedBy(s, q) == s # <<>> /\ s[1] = q /\ s[Len(s)] = q

Quoted(s) == QuotedBy(s, "\"") \/ QuotedBy(s, "'")

\* value[1..value.len() - 1] of a quoted value: the range 1..0 of a lone
\* quote character is out of order and the slice panics
QuoteSlicePanics(s) == Quoted(s) /\ Len(s) = 1

\* one layer of surrounding quotes removed when the text starts and ends
\* with the same quote character (value[1..value.len() - 1])
StripQuoteLayer(s) ==
    IF Quoted(s) /\ Len(s) >= 2
    THEN SubSeq(s, 2, Len(s) - 1)
    ELSE s

\* str::split over a set of separator characters: the pieces between them
RECURSIVE SplitAny(_, _, _, _)
SplitAny(s, seps, cur, acc) ==
    IF s = <<>> THEN Append(acc, cur)
    ELSE IF Head(s) \in seps
         THEN SplitAny(Tail(s), seps, <<>>, Append(acc, cur))
         ELSE SplitAny(Tail(s), seps, Append(cur, Head(s)), acc)

\* .filter(|s| !s.is_empty()) followed by .filter(|part| seen.insert(*part))
RECURSIVE UniqueNonEmpty(_, _)
UniqueNonEmpty(parts, acc) ==
    IF parts = <<>> THEN acc
    ELSE IF Head(parts) = <<>> \/ \E i \in 1..Len(acc) : acc[i] = Head(parts)
         THEN UniqueNonEmpty(Tail(parts), acc)
         ELSE UniqueNonEmpty(Tail(parts), Append(acc, Head(parts)))

\* join(":")
RECURSIVE JoinColon(_)
JoinColon(ws) ==
    IF ws = <<>> THEN <<>>
    ELSE IF Len(ws) = 1 THEN ws[1]
    ELSE ws[1] \o <<":">> \o JoinColon(Tail(ws))

\* str::lines: the pieces between line feeds, without a last empty piece
Lines(s) ==
    LET parts == SplitAny(s, {"\n"}, <<>>, <<>>)
    IN  IF parts[Len(parts)] = <<>> THEN SubSeq(parts, 1, Len(parts) - 1)
        ELSE parts

(***************************************************************************)
(* Words of the command lines                                              *)
(***************************************************************************)
LS      == <<"l", "s">>
GREP    == <<"g", "r", "e", "p">>
FALSE_  == <<"f", "a", "l", "s", "e">>
NOX     == <<"n", "o", "x">>
DIR     == <<"/", "d">>
HOME    == <<"/", "h">>
CD      == <<"c", "d">>
EXIT    == <<"e", "x", "i", "t">>
ALIAS   == <<"a", "l", "i", "a", "s">>
EXPORT  == <<"e", "x", "p", "o", "r", "t">>
SOURCE  == <<"s", "o", "u", "r", "c", "e">>
HISTORY == <<"h", "i", "s", "t", "o", "r", "y">>
LL      == <<"l", "l">>
LA      == <<"-", "l", "a">>
P       == <<"p">>
X       == <<"x">>
E       == <<"e">>
TILDE   == <<"~">>
ECHO    == <<"e", "c", "h", "o">>
ONE     == <<"1">>
PATH    == <<"P", "A", "T", "H">>
SCRIPT  == <<"/", "s">>

\* format!("/tmp/aorta_input_{}", pid) and format!("/tmp/aorta_output_{}", pid)
temp_input  == <<"/tmp/aorta_input_PID">>
temp_output == <<"/tmp/aorta_output_PID">>

(***************************************************************************)
(* The machine the shell runs on: programs, directories, files             *)
(***************************************************************************)
\* what the operating system does when asked to start the program `name`:
\* it runs and exits 0, runs and exits non-zero, is refused (the path is a
\* directory), or is not found
ProgramKind(name) ==
    IF name \in {LS, GREP, ECHO} THEN "exit0"
    ELSE IF name = FALSE_ THEN "exit1"
    ELSE IF name = DIR THEN "denied"
    ELSE "missing"

\* the directory the programs are installed in; it is on the search path
\* used when PATH is unset
DefaultPath == <<"/", "b", "i", "n">>

\* Command::new(name): a name without a slash is looked up in the
\* directories of PATH as the environment env_ has it
ProgramKindIn(name, env_) ==
    IF /\ Find(name, "/") = 0
       /\ PATH \in DOMAIN env_
       /\ \A i \in DOMAIN SplitAny(env_[PATH], {":"}, <<>>, <<>>) :
              SplitAny(env_[PATH], {":"}, <<>>, <<>>)[i] # DefaultPath
    THEN "missing"
    ELSE ProgramKind(name)

Directories == {HOME, DIR}

NoBytes == <<>>

\* the contents of the existing files named among the arguments
FilesRead(argv, fs) ==
    LET named == {i \in 2..Len(argv) : argv[i] \in DOMAIN fs}
        kth(k) == CHOOSE i \in named : Cardinality({j \in named : j < i}) = k - 1
    IN  [k \in 1..Cardinality(named) |->
            [path |-> argv[kth(k)], bytes |-> fs[argv[kth(k)]]]]

\* the bytes a run of argv writes to its standard output: determined by the
\* argument vector and by the files it reads
Stdout(argv, fs) == <<[argv |-> argv, read |-> FilesRead(argv, fs)]>>

\* std::fs::write: fails when the path names a directory
CanWrite(path) == path \notin Directories

WriteFile(fs, path, bytes) ==
    [q \in DOMAIN fs \cup {path} |-> IF q = path THEN bytes ELSE fs[q]]

RemoveFile(fs, path) == [q \in DOMAIN fs \ {path} |-> fs[q]]

MapPut(m, k, v) == [q \in DOMAIN m \cup {k} |-> IF q = k THEN v ELSE m[q]]

\* one effect of executing a pipeline, as the outside world sees it
Effect(kind, stage, argv, stdin, out, outcome, fs) ==
    [kind |-> kind, stage |-> stage, argv |-> argv, stdin |-> stdin,
     read |-> FilesRead(argv, fs), out |-> out, outcome |-> outcome,
     environ |-> "none"]

\* the start of a child process: an effect that carries the environment
\* the child is given
ChildEffect(kind, stage, argv, stdin, out, outcome, fs, env_) ==
    [Effect(kind, stage, argv, stdin, out, outcome, fs)
        EXCEPT !.environ = env_]

(***************************************************************************)
(* Path expansion and the process spawner                                  *)
(***************************************************************************)
\* PathExpander::expand
Expand(path) ==
    IF path # <<>> /\ path[1] = "~"
    THEN IF path = TILDE THEN HOME
         ELSE IF Len(path) >= 2 /\ path[2] = "/"
              THEN HOME \o <<"/">> \o SubSeq(path, 3, Len(path))
              ELSE path
    ELSE path

ExpandArg(arg) == IF Find(arg, "~") # 0 THEN Expand(arg) ELSE arg

\* what spawn_process returns and leaves behind: the Result, the effect on
\* the outside world, the diagnostics printed, whether the child was waited
\* for and whether setup_signal_handlers was called
Spawned(res, err, events, diag, waited, handler) ==
    [res |-> res, err |-> err, events |-> events, diag |-> diag,
     waited |-> waited, handler |-> handler]

\* spawn_process with the outcome a missing program had before it was
\* downgraded: the spawn error is returned
spawn_process_strict(args, k, fs, quiet, env_) ==
    LET argv == [i \in 1..Len(args) |-> ExpandArg(args[i])]
        kind == ProgramKindIn(argv[1], env_)
    IN  IF kind \in {"missing", "denied"}
        THEN Spawned("Err", "IoError",
                 <<ChildEffect("spawn", k, argv, "inherit", NoBytes, "Err", fs,
                               env_)>>,
                 <<>>, FALSE, FALSE)
        ELSE Spawned("Ok", "none",
                 <<ChildEffect("spawn", k, argv, "inherit", NoBytes, kind, fs,
                               env_)>>,
                 IF kind = "exit1" /\ ~quiet THEN <<"exited with status">>
                 ELSE <<>>,
                 TRUE, TRUE)

\* spawn_process printing its "command not found" diagnostic whatever the
\* quiet flag says
spawn_process_loud(args, k, fs, quiet, env_) ==
    LET argv == [i \in 1..Len(args) |-> ExpandArg(args[i])]
        kind == ProgramKindIn(argv[1], env_)
    IN  IF kind = "missing"
        THEN Spawned("Ok", "none",
                 <<ChildEffect("spawn", k, argv, "inherit", NoBytes, "notfound", fs,
                               env_)>>,
                 <<"command not found">>, FALSE, FALSE)
        ELSE IF kind = "denied"
        THEN Spawned("Err", "IoError",
                 <<ChildEffect("spawn", k, argv, "inherit", NoBytes, "Err", fs,
                               env_)>>,
                 <<>>, FALSE, FALSE)
        ELSE Spawned("Ok", "none",
                 <<ChildEffect("spawn", k, argv, "inherit", NoBytes, kind, fs,
                               env_)>>,
                 IF kind = "exit1" /\ ~quiet THEN <<"exited with status">>
                 ELSE <<>>,
                 TRUE, TRUE)

\* ProcessExecutor::spawn_process: standard streams inherited, the child is
\* waited for; a missing executable is reported and is not an error
spawn_process(args, k, fs, quiet, env_) ==
    LET argv == [i \in 1..Len(args) |-> ExpandArg(args[i])]
        kind == ProgramKindIn(argv[1], env_)
    IN  IF kind = "missing"
        THEN Spawned("Ok", "none",
                 <<ChildEffect("spawn", k, argv, "inherit", NoBytes, "notfound", fs,
                               env_)>>,
                 IF ~quiet THEN <<"command not found">> ELSE <<>>,
                 FALSE, FALSE)
        ELSE IF kind = "denied"
        THEN Spawned("Err", "IoError",
                 <<ChildEffect("spawn", k, argv, "inherit", NoBytes, "Err", fs,
                               env_)>>,
                 <<>>, FALSE, FALSE)
        ELSE Spawned("Ok", "none",
                 <<ChildEffect("spawn", k, argv, "inherit", NoBytes, kind, fs,
                               env_)>>,
                 IF kind = "exit1" /\ ~quiet THEN <<"exited with status">>
                 ELSE <<>>,
                 TRUE, TRUE)

\* Command::new(command).args(args).stdout(Stdio::piped()).output():
\* no standard input, standard output captured, the exit status ignored
Capture(command, args, k, fs, env_) ==
    LET argv == <<command>> \o args
        kind == ProgramKindIn(command, env_)
    IN  IF kind \in {"missing", "denied"}
        THEN [res |-> "Err", out |-> NoBytes,
              events |-> <<ChildEffect("capture", k, argv, "null", NoBytes,
                                       "Err", fs, env_)>>]
        ELSE [res |-> "Ok", out |-> Stdout(argv, fs),
              events |-> <<ChildEffect("capture", k, argv, "null",
                                       Stdout(argv, fs), kind, fs, env_)>>]

\* the interrupt disposition after signal(SIGINT, ..) with the handler
\* taken off again when it was already installed
setup_signal_handlers_toggle(disposition) ==
    IF disposition = "handle_sigint" THEN "default" ELSE "handle_sigint"

\* signal::setup_signal_handlers: signal(SIGINT, handle_sigint), whatever
\* the disposition was
setup_signal_handlers(disposition) == "handle_sigint"

\* child.wait() returning although the child may still run
Waited_early(c, alive) == TRUE

\* child.wait() / the wait inside Command::output: returns once the child
\* c is no longer among the running children
Waited(c, alive) == c \notin alive

(***************************************************************************)
(* Built-in commands and the dispatcher                                    *)
(***************************************************************************)
Builtins == {CD, SOURCE, EXIT, ALIAS, HISTORY, EXPORT}

\* CommandExecutor::is_builtin on the registry `commands`
is_builtin(registry, command) == command \in registry

\* the state a built-in can change: working directory, the alias table of
\* the AliasCommand, the process environment, the table of the
\* EnvVarManager, the History of the HistoryCommand; and the registry the
\* executor looks names up in
World(cwd_, aliases_, env_, vars_, history_, commands_) ==
    [cwd |-> cwd_, aliases |-> aliases_, env |-> env_, vars |-> vars_,
     history |-> history_, commands |-> commands_]

\* what a built-in returns: Ok, Err with the CommandError variant, Exit
\* (the process is gone) or Panic; the world it leaves; what the commands
\* it ran itself did
Done(res, err, w) == [res |-> res, err |-> err, world |-> w, inner |-> <<>>]

\* CdCommand::execute changing directory also when set_current_dir failed
CdExecute_moves(args, w) ==
    LET path_str == IF args = <<>> THEN TILDE ELSE args[1]
        expanded == Expand(path_str)
    IN  IF expanded \in Directories
        THEN Done("Ok", "none", [w EXCEPT !.cwd = expanded])
        ELSE Done("Err", "ExecutionError", [w EXCEPT !.cwd = expanded])

\* CdCommand::execute
CdExecute(args, w) ==
    LET path_str == IF args = <<>> THEN TILDE ELSE args[1]
        expanded == Expand(path_str)
    IN  IF expanded \in Directories
        THEN Done("Ok", "none", [w EXCEPT !.cwd = expanded])
        ELSE Done("Err", "ExecutionError", w)

\* AliasCommand::execute
AliasExecute(args, w) ==
    IF args = <<>> THEN Done("Ok", "none", w)
    ELSE LET sp == SplitOnce(JoinSp(args), "=")
         IN  IF sp.found
             THEN Done("Ok", "none",
                       [w EXCEPT !.aliases =
                            MapPut(w.aliases, Trim(sp.before),
                                   TrimMatchesQuotes(Trim(sp.after)))])
             ELSE Done("Err", "InvalidArguments", w)

\* EnvVarManager::sanitize_path: the distinct non-empty pieces between
\* colons and quote characters, joined by colons
sanitize_path(path) ==
    JoinColon(UniqueNonEmpty(SplitAny(path, {":", "\"", "'"}, <<>>, <<>>), <<>>))

\* ExportCommand::execute with parse_export and EnvVarManager::set
ExportExecute(args, w) ==
    IF args = <<>> THEN Done("Err", "InvalidArguments", w)
    ELSE LET sp    == SplitOnce(args[1], "=")
             name  == Trim(sp.before)
             value == Trim(sp.after)
             clean_value == IF name = PATH
                            THEN sanitize_path(StripQuoteLayer(value))
                            ELSE StripQuoteLayer(value)
         IN  IF ~sp.found THEN Done("Err", "InvalidArguments", w)
             ELSE IF QuoteSlicePanics(value) THEN Done("Panic", "none", w)
             ELSE IF name = <<>> THEN Done("Err", "InvalidArguments", w)
             ELSE IF name = PATH /\ StripQuoteLayer(value) = <<>>
                  THEN Done("Err", "InvalidArguments", w)
             ELSE Done("Ok", "none",
                       [w EXCEPT !.vars = MapPut(w.vars, name, clean_value),
                                 !.env  = MapPut(w.env, name, clean_value)])

\* ExitCommand::execute returning to its caller
ExitExecute_returns(args, w) == Done("Ok", "none", w)

\* ExitCommand::execute: std::process::exit(0)
ExitExecute(args, w) == Done("Exit", "none", w)

\* the status std::process::exit is called with
ExitStatus == 0

Numerals == {<<"0">>, <<"1">>, <<"2">>}

\* str::parse::<usize> of a one-digit numeral
ParseIndex(t) == IF t = <<"0">> THEN 0 ELSE IF t = <<"1">> THEN 1 ELSE 2

\* VecDeque::remove(index) with a 0-based index
RemoveAt(q, i) == SubSeq(q, 1, i) \o SubSeq(q, i + 2, Len(q))

\* HistoryCommand::execute on the History the CommandExecutor created
HistoryExecute(args, w) ==
    IF args = <<>> THEN Done("Ok", "none", w)
    ELSE IF args[1] \in {<<"s", "e", "a", "r", "c", "h">>, <<"s", "t", "a", "t", "s">>}
    THEN Done("Ok", "none", w)
    ELSE IF args[1] = <<"c", "l", "e", "a", "r">>
    THEN Done("Ok", "none", [w EXCEPT !.history = <<>>])
    ELSE IF args[1] = <<"d", "e", "l", "e", "t", "e">>
    THEN IF Len(args) < 2 \/ args[2] \notin Numerals
         THEN Done("Err", "InvalidArguments", w)
         ELSE IF ParseIndex(args[2]) >= Len(w.history)
         THEN Done("Err", "HistoryError", w)
         ELSE Done("Ok", "none",
                   [w EXCEPT !.history = RemoveAt(w.history, ParseIndex(args[2]))])
    ELSE Done("Err", "InvalidArguments", w)

\* the CommandExecutor a SourceCommand holds: the clone taken while only
\* cd was registered
SourceBuiltins == {CD}

\* one line of a sourced file, run through the SourceCommand's executor;
\* blank lines and comments are skipped
RunLine(text, w, k, fs, quiet) ==
    LET line  == Trim(text)
        parts == SplitWhitespace(line)
    IN  IF line = <<>> \/ line[1] = "#" \/ parts = <<>>
        THEN [res |-> "Ok", world |-> w, events |-> <<>>]
        ELSE IF parts[1] \in SourceBuiltins
        THEN LET r == CdExecute(Tail(parts), w)
             IN  [res |-> r.res, world |-> r.world,
                  events |-> <<Effect("builtin", k, parts, "none", NoBytes,
                                      r.res, fs)>>]
        ELSE LET r == spawn_process(parts, k, fs, quiet, w.env)
             IN  [res |-> r.res, world |-> w, events |-> r.events]

RECURSIVE RunLines(_, _, _, _, _, _)
\* after one line returned o: the remaining lines when it succeeded
AfterLine(o, rest, k, fs, quiet, events) ==
    IF o.res = "Ok"
    THEN RunLines(rest, o.world, k, fs, quiet, events \o o.events)
    ELSE [res |-> "Err", world |-> o.world, events |-> events \o o.events]

\* the lines of a sourced file, run one after the other until one fails
RunLines(lines, w, k, fs, quiet, events) ==
    IF lines = <<>> THEN [res |-> "Ok", world |-> w, events |-> events]
    ELSE AfterLine(RunLine(Head(lines), w, k, fs, quiet), Tail(lines), k, fs,
                   quiet, events)

\* .map_err(|e| CommandError::ExecutionError(..))? on the line that failed
FromLines(r) ==
    [res |-> r.res, err |-> IF r.res = "Ok" THEN "none" ELSE "ExecutionError",
     world |-> r.world, inner |-> r.events]

\* SourceCommand::execute
SourceExecute(args, w, k, fs, quiet) ==
    IF args = <<>> THEN Done("Err", "InvalidArguments", w)
    ELSE LET path == Expand(args[1])
         IN  IF path \notin DOMAIN fs
             THEN Done("Err", "ExecutionError", w)
             ELSE FromLines(RunLines(Lines(fs[path]), w, k, fs, quiet, <<>>))

\* what CommandExecutor::execute returns and leaves behind
Executed(res, err, w, handler_, passed, events, diag, waited, handler) ==
    [res |-> res, err |-> err, world |-> w, builtin |-> handler_,
     passed |-> passed, events |-> events, diag |-> diag,
     waited |-> waited, handler |-> handler]

\* the handler registered under a built-in name, applied to args
Handler(command, args, k, w, fs, quiet) ==
    CASE command = CD      -> CdExecute(args, w)
      [] command = ALIAS   -> AliasExecute(args, w)
      [] command = EXPORT  -> ExportExecute(args, w)
      [] command = EXIT    -> ExitExecute(args, w)
      [] command = HISTORY -> HistoryExecute(args, w)
      [] command = SOURCE  -> SourceExecute(args, w, k, fs, quiet)

\* cmd.execute(args): what the built-in r returned is what execute returns
FromBuiltin(r, command, passed, args, k, fs) ==
    Executed(r.res, r.err, r.world, command, passed,
             <<Effect("builtin", k, <<command>> \o args, "none", NoBytes,
                      r.res, fs)>> \o r.inner,
             <<>>, FALSE, FALSE)

\* .map_err(|e| CommandError::ExecutionError(e.to_string())) on what the
\* spawner r returned
FromSpawner(r, command, args, w) ==
    Executed(r.res, IF r.res = "Err" THEN "ExecutionError" ELSE "none",
             w, "none", <<command>> \o args, r.events, r.diag, r.waited,
             r.handler)

\* CommandExecutor::execute handing the built-in the command name too
Execute_with_name(command, args, k, w, fs, quiet) ==
    IF is_builtin(w.commands, command)
    THEN FromBuiltin(Handler(command, <<command>> \o args, k, w, fs, quiet),
                     command, <<command>> \o args, args, k, fs)
    ELSE FromSpawner(spawn_process(<<command>> \o args, k, fs, quiet, w.env),
                     command, args, w)

\* CommandExecutor::execute: a registered built-in, else the process spawner
Execute(command, args, k, w, fs, quiet) ==
    IF is_builtin(w.commands, command)
    THEN FromBuiltin(Handler(command, args, k, w, fs, quiet),
                     command, args, args, k, fs)
    ELSE FromSpawner(spawn_process(<<command>> \o args, k, fs, quiet, w.env),
                     command, args, w)

(***************************************************************************)
(* Environment-variable substitution                                       *)
(***************************************************************************)
NameChars ==
    {"a", "b", "c", "d", "e", "f", "g", "h", "i", "j", "k", "l", "m", "n", "o",
     "p", "q", "r", "s", "t", "u", "v", "w", "x", "y", "z",
     "A", "B", "C", "D", "E", "F", "G", "H", "I", "J", "K", "L", "M", "N", "O",
     "P", "Q", "R", "S", "T", "U", "V", "W", "X", "Y", "Z",
     "0", "1", "2", "3", "4", "5", "6", "7", "8", "9", "_"}

\* the first position after i that holds no name character, Len + 1 if none
RECURSIVE NameEnd(_, _)
NameEnd(s, i) ==
    IF i > Len(s) THEN Len(s) + 1
    ELSE IF s[i] \in NameChars THEN NameEnd(s, i + 1) ELSE i

\* the loop of expand_env_vars, cut off after `fuel` substitutions
RECURSIVE ExpandLoop(_, _, _)
ExpandLoop(result, env_, fuel) ==
    LET dollar_pos == Find(result, "$")
    IN  IF dollar_pos = 0 \/ dollar_pos >= Len(result)
        THEN [done |-> TRUE, text |-> result]
        ELSE IF fuel = 0 THEN [done |-> FALSE, text |-> result]
        ELSE LET var_end  == NameEnd(result, dollar_pos + 1)
                 var_name == SubSeq(result, dollar_pos + 1, var_end - 1)
                 value    == IF var_name \in DOMAIN env_ THEN env_[var_name]
                             ELSE <<>>
             IN  ExpandLoop(SubSeq(result, 1, dollar_pos - 1) \o value
                              \o SubSeq(result, var_end, Len(result)),
                            env_, fuel - 1)

expand_env_vars(input, env_) == ExpandLoop(input, env_, MaxExpand)

(***************************************************************************)
(* Alias resolution of one stage                                           *)
(***************************************************************************)
\* alias resolution that looks the resulting command up once more
Resolve_again(stage, aliases) ==
    LET first ==
            IF stage.command \in DOMAIN aliases
            THEN SplitWhitespace(aliases[stage.command])
            ELSE <<stage.command>>
        expanded_parts ==
            IF first # <<>> /\ first[1] \in DOMAIN aliases
            THEN SplitWhitespace(aliases[first[1]]) \o Tail(first)
            ELSE first
    IN  IF expanded_parts = <<>>
        THEN [panic |-> TRUE, command |-> <<>>, args |-> <<>>]
        ELSE [panic |-> FALSE,
              command |-> expanded_parts[1],
              args |-> Tail(expanded_parts) \o stage.args]

\* pipeline.rs: expanded_parts, command and args of a stage; an empty
\* expanded_parts makes expanded_parts[0] panic
Resolve(stage, aliases) ==
    LET expanded_parts ==
            IF stage.command \in DOMAIN aliases
            THEN SplitWhitespace(aliases[stage.command])
            ELSE <<stage.command>>
    IN  IF expanded_parts = <<>>
        THEN [panic |-> TRUE, command |-> <<>>, args |-> <<>>]
        ELSE [panic |-> FALSE,
              command |-> expanded_parts[1],
              args |-> Tail(expanded_parts) \o stage.args]

\* AliasManager::expand_command
expand_command(aliases, command) ==
    LET parts == SplitWhitespace(command)
    IN  IF parts # <<>> /\ parts[1] \in DOMAIN aliases
        THEN JoinSp(<<aliases[parts[1]]>> \o Tail(parts))
        ELSE command

(***************************************************************************)
(* State                                                                   *)
(***************************************************************************)
VARIABLES
    pline,       \* the text handed to Pipeline::parse on its own
    presult,     \* its result, or NotParsed before the call
    phase,       \* "prompt", "exec" (inside execute_with_context), "exited",
                 \* "panicked", "hung"
    nlines,      \* lines read so far
    cmdline,     \* the line handed to execute_command, as typed
    stages,      \* Pipeline.stages of the line being executed
    idx,         \* the loop index of execute_with_context (1-based)
    prev,        \* previous_output
    result,      \* "running" inside the loop, else what the loop returned
    log,         \* the effects of the current line, in order
    files,       \* the file system: path -> bytes
    cfgAliases,  \* Config.aliases (AliasManager), what get_aliases() returns
    cmdAliases,  \* the table of the executor's AliasCommand
    env,         \* the process environment
    cwd,         \* the process working directory
    current_dir, \* Shell.current_dir
    hist,        \* what was handed to History::add_with_details
    lastResult,  \* what execute_command returned for the last line
    env_vars,    \* the table of the executor's EnvVarManager
    cmdHistory,  \* the entries of the History the CommandExecutor created
    quiet_mode,  \* ProcessExecutor.quiet_mode
    exit_code,   \* the status the shell process exited with, "none" before
    commands,    \* the names registered in CommandExecutor.commands
    call,        \* the arguments of a function called on its own
    ret,         \* what that call returned, NotCalled before the call
    spawner,     \* where the thread is inside spawn_process or output
    child,       \* the child the spawner holds, 0 when it holds none
    children,    \* the children of the shell that are alive
    sigint       \* the disposition of the interrupt signal in the shell:
                 \* the handler of ctrlc::set_handler, handle_sigint, default

vars == <<pline, presult, phase, nlines, cmdline, stages, idx, prev, result,
          log, files, cfgAliases, cmdAliases, env, cwd, current_dir, hist,
          lastResult, env_vars, cmdHistory, quiet_mode, exit_code, commands,
          call, ret, spawner, child, children, sigint>>

parserVars == <<pline, presult>>

callVars == <<call, ret>>

procVars == <<spawner, child, children, sigint>>

shellVars == <<phase, nlines, cmdline, stages, idx, prev, result, log, files,
               cfgAliases, cmdAliases, env, cwd, current_dir, hist, lastResult,
               env_vars, cmdHistory, quiet_mode, exit_code, commands>>

NotCalled == [called |-> FALSE]

NoCall == [fn |-> "none"]

NotParsed == [ok |-> FALSE, err |-> "pending", msg |-> ""]

None == [some |-> FALSE, bytes |-> NoBytes]

Some(b) == [some |-> TRUE, bytes |-> b]

EmptyMap == <<>>

\* the alias table the configuration loader built from the rc file:
\*   alias ll='ls -la'   alias ls='ls -F'   alias x=nox   alias e=''
RcAliases ==
    MapPut(MapPut(MapPut(MapPut(EmptyMap,
        LL, <<"l", "s", " ", "-", "l", "a">>),
        LS, <<"l", "s", " ", "-", "F">>),
        X, NOX),
        E, <<>>)

InitEnv == MapPut(EmptyMap, <<"H", "O", "M", "E">>, HOME)

\* Shell::new: what construction fixes whatever the machine looks like
ShellNew ==
    /\ phase = "prompt"
    /\ nlines = 0
    /\ cmdline = <<>>
    /\ stages = <<>>
    /\ idx = 1
    /\ prev = None
    /\ result = "idle"
    /\ log = <<>>
    /\ cmdAliases = EmptyMap
    /\ hist = <<>>
    /\ lastResult = "none"
    /\ exit_code = "none"
    /\ commands = Builtins
    /\ spawner = "idle"
    /\ child = 0
    /\ children = {}
    /\ sigint = "ctrlc"

\* what construction reads from the machine: the files, the rc file's
\* aliases, the environment, the working directory, the quiet flag
MachineInit ==
    /\ files = EmptyMap
    /\ cfgAliases = RcAliases
    /\ env = InitEnv
    /\ env_vars = InitEnv
    /\ cwd = HOME
    /\ current_dir = HOME
    /\ quiet_mode = FALSE
    /\ cmdHistory = <<>>

\* Shell::new: the state at the first prompt
ShellInit == ShellNew /\ MachineInit

(***************************************************************************)
(* The parser on its own: every line over the parser's alphabet            *)
(***************************************************************************)
ParseChars == {"a", " ", "\t", "|", "&", ";", ">"}

ParseInputs == UNION {[1..n -> ParseChars] : n \in 0..MaxLen}

InitParse ==
    /\ pline \in ParseInputs
    /\ presult = NotParsed
    /\ call = NoCall
    /\ ret = NotCalled
    /\ ShellInit

DoParse ==
    /\ presult = NotParsed
    /\ presult' = Parse(pline)
    /\ UNCHANGED <<pline, callVars, procVars, shellVars>>

NextParse == DoParse

SpecParse == InitParse /\ [][NextParse]_vars

(***************************************************************************)
(* expand_env_vars on its own: every text of up to MaxText characters      *)
(* under every environment over two names                                  *)
(***************************************************************************)
MaxText == 3

ExpandChars == {"$", "A", "B", " "}

ExpandInputs == UNION {[1..n -> ExpandChars] : n \in 0..MaxText}

ExpandNames == {<<"A">>, <<"B">>}

ExpandValues == {<<"v">>, <<"$", "B">>, <<"$", "A">>, <<"$">>, <<>>}

ExpandEnvs == UNION {[S -> ExpandValues] : S \in SUBSET ExpandNames}

InitExpand ==
    /\ ShellNew
    /\ files = EmptyMap
    /\ cfgAliases = RcAliases
    /\ env \in ExpandEnvs
    /\ env_vars = env
    /\ cwd = HOME
    /\ current_dir = HOME
    /\ quiet_mode = FALSE
    /\ cmdHistory = <<>>
    /\ pline = <<>>
    /\ presult = NotParsed
    /\ call \in {[fn |-> "expand_env_vars", input |-> t] : t \in ExpandInputs}
    /\ ret = NotCalled

\* self.expand_env_vars(input)
DoExpand ==
    /\ call.fn = "expand_env_vars"
    /\ ret = NotCalled
    /\ LET r == expand_env_vars(call.input, env)
       IN  ret' = [called |-> TRUE, done |-> r.done, text |-> r.text]
    /\ UNCHANGED <<call, parserVars, procVars, shellVars>>

NextExpand == DoExpand

SpecExpand == InitExpand /\ [][NextExpand]_vars

(***************************************************************************)
(* expand_command on its own: every line of up to MaxCommand characters    *)
(* under three alias tables                                                *)
(***************************************************************************)
MaxCommand == 4

CommandChars == {"k", "x", " "}

CommandInputs == UNION {[1..n -> CommandChars] : n \in 0..MaxCommand}

\* no alias; k='ls -l'; k=x and x=k
AliasTables ==
    {EmptyMap,
     MapPut(EmptyMap, <<"k">>, <<"l", "s", " ", "-", "l">>),
     MapPut(MapPut(EmptyMap, <<"k">>, X), X, <<"k">>)}

InitAlias ==
    /\ ShellNew
    /\ files = EmptyMap
    /\ cfgAliases \in AliasTables
    /\ env = InitEnv
    /\ env_vars = InitEnv
    /\ cwd = HOME
    /\ current_dir = HOME
    /\ quiet_mode = FALSE
    /\ cmdHistory = <<>>
    /\ pline = <<>>
    /\ presult = NotParsed
    /\ call \in {[fn |-> "expand_command", command |-> t] : t \in CommandInputs}
    /\ ret = NotCalled

\* config.aliases.expand_command(command)
DoExpandCommand ==
    /\ call.fn = "expand_command"
    /\ ret = NotCalled
    /\ ret' = [called |-> TRUE,
               text |-> expand_command(cfgAliases, call.command)]
    /\ UNCHANGED <<call, parserVars, procVars, shellVars>>

NextAlias == DoExpandCommand

SpecAlias == InitAlias /\ [][NextAlias]_vars

\* the world a built-in left behind becomes the state
Adopt(w) ==
    /\ cwd' = w.cwd
    /\ cmdAliases' = w.aliases
    /\ env' = w.env
    /\ env_vars' = w.vars
    /\ cmdHistory' = w.history
    /\ commands' = w.commands

(***************************************************************************)
(* CommandExecutor::execute and spawn_process on their own: every name of  *)
(* DispatchNames with up to MaxArgs arguments of DispatchWords             *)
(***************************************************************************)
MaxArgs == 2

DispatchNames == Builtins \cup {LS, FALSE_, NOX, DIR}

DispatchWords ==
    {TILDE, DIR, NOX, SCRIPT,
     <<"X", "=", "1">>, <<"=", "1">>, <<"X", "=", "'">>,
     <<"X", "=", "'", "1", "'">>,
     <<"P", "A", "T", "H", "=", "/", "a", ":", "/", "a">>,
     <<"c", "l", "e", "a", "r">>, <<"d", "e", "l", "e", "t", "e">>,
     <<"0">>, <<"1">>}

DispatchArgs == UNION {[1..n -> DispatchWords] : n \in 0..MaxArgs}

SpawnArgs == UNION {[1..n -> {TILDE, X}] : n \in 0..MaxArgs}

\* the file /s:   cd /d        (three lines: a cd, a comment, a program
\*                # c           that does not exist)
\*                nox
ScriptText ==
    <<"c", "d", " ", "/", "d", "\n", "#", " ", "c", "\n", "n", "o", "x", "\n">>

InitDispatch ==
    /\ ShellNew
    /\ files = MapPut(EmptyMap, SCRIPT, ScriptText)
    /\ cfgAliases = RcAliases
    /\ env = InitEnv
    /\ env_vars = InitEnv
    /\ cwd \in Directories
    /\ current_dir = cwd
    /\ quiet_mode \in BOOLEAN
    /\ cmdHistory = <<[command |-> LS, exit_code |-> 0]>>
    /\ pline = <<>>
    /\ presult = NotParsed
    /\ call \in {[fn |-> "execute", name |-> n, args |-> a] :
                     n \in DispatchNames, a \in DispatchArgs}
               \cup {[fn |-> "spawn_process", args |-> <<n>> \o a] :
                        n \in DispatchNames, a \in SpawnArgs}
    /\ ret = NotCalled

\* executor.execute(name, args)
DoExecute ==
    /\ call.fn = "execute"
    /\ ret = NotCalled
    /\ \E d \in {Execute(call.name, call.args, 0,
                         World(cwd, cmdAliases, env, env_vars, cmdHistory,
                               commands),
                         files, quiet_mode)} :
           /\ ret' = [called |-> TRUE, res |-> d.res, err |-> d.err,
                      builtin |-> d.builtin, passed |-> d.passed,
                      diag |-> d.diag, waited |-> d.waited,
                      handler |-> d.handler]
           /\ log' = log \o d.events
           /\ IF d.res = "Exit"
              THEN /\ phase' = "exited"
                   /\ exit_code' = ExitStatus
                   /\ UNCHANGED <<cwd, cmdAliases, env, env_vars, cmdHistory,
                                  commands>>
              ELSE IF d.res = "Panic"
              THEN /\ phase' = "panicked"
                   /\ UNCHANGED <<cwd, cmdAliases, env, env_vars, cmdHistory,
                                  commands, exit_code>>
              ELSE /\ Adopt(d.world)
                   /\ UNCHANGED <<phase, exit_code>>
    /\ UNCHANGED <<call, parserVars, procVars,
                   nlines, cmdline, stages, idx, prev, result,
                   files, cfgAliases, current_dir, hist, lastResult,
                   quiet_mode>>

\* process_executor.spawn_process(args)
DoSpawn ==
    /\ call.fn = "spawn_process"
    /\ ret = NotCalled
    /\ \E r \in {spawn_process(call.args, 0, files, quiet_mode, env)} :
           /\ ret' = [called |-> TRUE, res |-> r.res, err |-> r.err,
                      diag |-> r.diag, waited |-> r.waited,
                      handler |-> r.handler]
           /\ log' = log \o r.events
    /\ UNCHANGED <<call, parserVars, procVars,
                   phase, nlines, cmdline, stages, idx, prev,
                   result, files, cfgAliases, cmdAliases, env, cwd, current_dir,
                   hist, lastResult, env_vars, cmdHistory, quiet_mode,
                   exit_code, commands>>

NextDispatch == DoExecute \/ DoSpawn

SpecDispatch == InitDispatch /\ [][NextDispatch]_vars

(***************************************************************************)
(* The source built-in on its own: every file of up to MaxScript lines of  *)
(* ScriptLines, sourced through CommandExecutor::execute                   *)
(***************************************************************************)
MaxScript == 2

ExportLine == JoinSp(<<EXPORT, <<"X", "=", "1">>>>)

SequenceLine == JoinSp(<<LS, <<";">>, NOX>>)

ScriptLines ==
    {JoinSp(<<CD, TILDE>>), JoinSp(<<CD, DIR>>), JoinSp(<<CD, NOX>>), ExportLine,
     <<"#", " ", "c">>, <<" ">>, SequenceLine, NOX, DIR, LL}

\* the text of a file: every line ended by a line feed
RECURSIVE FileText(_)
FileText(lines) ==
    IF lines = <<>> THEN <<>>
    ELSE Head(lines) \o <<"\n">> \o FileText(Tail(lines))

Scripts == UNION {[1..n -> ScriptLines] : n \in 0..MaxScript}

InitSource ==
    /\ ShellNew
    /\ \E t \in Scripts : files = MapPut(EmptyMap, SCRIPT, FileText(t))
    /\ cfgAliases = RcAliases
    /\ env = InitEnv
    /\ env_vars = InitEnv
    /\ cwd \in Directories
    /\ current_dir = cwd
    /\ quiet_mode \in BOOLEAN
    /\ cmdHistory = <<>>
    /\ pline = <<>>
    /\ presult = NotParsed
    /\ call \in {[fn |-> "execute", name |-> SOURCE, args |-> a] :
                     a \in {<<>>, <<SCRIPT>>, <<NOX>>}}
    /\ ret = NotCalled

NextSource == DoExecute

SpecSource == InitSource /\ [][NextSource]_vars

(***************************************************************************)
(* The process spawner step by step: up to MaxSpawns consecutive requests, *)
(* each a spawn_process call (a dispatched stage) or a Command::output     *)
(* call (a piped or redirected stage); the children run on their own and   *)
(* exit when they choose                                                   *)
(***************************************************************************)
MaxSpawns == 2

SpawnRequests ==
    [how : {"spawn_process", "output"}, argv : {<<LS>>, <<FALSE_>>, <<NOX>>, <<DIR>>}]

InitSpawn ==
    /\ ShellInit
    /\ pline = <<>>
    /\ presult = NotParsed
    /\ call \in {[fn |-> "requests", requests |-> q] :
                    q \in UNION {[1..n -> SpawnRequests] : n \in 0..MaxSpawns}}
    /\ ret = NotCalled

\* the results of the requests that returned
Returned == IF ret = NotCalled THEN <<>> ELSE ret.results

\* the thread is between two requests and one is left
AtRequest(how) ==
    /\ call.fn = "requests"
    /\ spawner = "idle"
    /\ Len(Returned) < Len(call.requests)
    /\ call.requests[Len(Returned) + 1].how = how

\* the request returns res to the stage loop
Return(res, events) ==
    /\ ret' = [called |-> TRUE, results |-> Append(Returned, res)]
    /\ log' = log \o events
    /\ spawner' = "idle"
    /\ child' = 0

\* the child of the request is started
Start(pc) ==
    /\ spawner' = pc
    /\ child' = Len(Returned) + 1
    /\ children' = children \cup {Len(Returned) + 1}
    /\ UNCHANGED <<ret, log>>

\* spawn_process up to command.spawn(): a program that cannot be started
\* makes the call return at once
SpawnChild ==
    /\ AtRequest("spawn_process")
    /\ \E r \in {spawn_process(call.requests[Len(Returned) + 1].argv,
                               Len(Returned) + 1, files, quiet_mode, env)} :
           IF r.waited THEN Start("spawned")
           ELSE Return(r.res, r.events) /\ UNCHANGED children
    /\ UNCHANGED <<call, parserVars, sigint, phase, nlines, cmdline, stages,
                   idx, prev, result, files, cfgAliases, cmdAliases, env, cwd,
                   current_dir, hist, lastResult, env_vars, cmdHistory,
                   quiet_mode, exit_code, commands>>

\* signal::setup_signal_handlers()? between spawn and wait
InstallHandler ==
    /\ spawner = "spawned"
    /\ sigint' = setup_signal_handlers(sigint)
    /\ spawner' = "waiting"
    /\ UNCHANGED <<callVars, parserVars, child, children, shellVars>>

\* child.wait() returns and spawn_process with it
WaitReturns ==
    /\ spawner = "waiting"
    /\ Waited(child, children)
    /\ \E r \in {spawn_process(call.requests[Len(Returned) + 1].argv,
                               Len(Returned) + 1, files, quiet_mode, env)} :
           Return(r.res, r.events)
    /\ UNCHANGED <<call, parserVars, children, sigint, phase, nlines, cmdline,
                   stages, idx, prev, result, files, cfgAliases, cmdAliases,
                   env, cwd, current_dir, hist, lastResult, env_vars,
                   cmdHistory, quiet_mode, exit_code, commands>>

\* Command::output up to the start of the child
OutputChild ==
    /\ AtRequest("output")
    /\ \E c \in {Capture(Head(call.requests[Len(Returned) + 1].argv),
                         Tail(call.requests[Len(Returned) + 1].argv),
                         Len(Returned) + 1, files, env)} :
           IF c.res = "Ok" THEN Start("collecting")
           ELSE Return(c.res, c.events) /\ UNCHANGED children
    /\ UNCHANGED <<call, parserVars, sigint, phase, nlines, cmdline, stages,
                   idx, prev, result, files, cfgAliases, cmdAliases, env, cwd,
                   current_dir, hist, lastResult, env_vars, cmdHistory,
                   quiet_mode, exit_code, commands>>

\* Command::output returns: the child's output was read to its end and
\* the child waited for
OutputReturns ==
    /\ spawner = "collecting"
    /\ Waited(child, children)
    /\ \E c \in {Capture(Head(call.requests[Len(Returned) + 1].argv),
                         Tail(call.requests[Len(Returned) + 1].argv),
                         Len(Returned) + 1, files, env)} :
           Return(c.res, c.events)
    /\ UNCHANGED <<call, parserVars, children, sigint, phase, nlines, cmdline,
                   stages, idx, prev, result, files, cfgAliases, cmdAliases,
                   env, cwd, current_dir, hist, lastResult, env_vars,
                   cmdHistory, quiet_mode, exit_code, commands>>

\* a running child exits
ChildExits ==
    /\ \E c \in children : children' = children \ {c}
    /\ UNCHANGED <<callVars, parserVars, spawner, child, sigint, shellVars>>

NextSpawn ==
    \/ SpawnChild
    \/ InstallHandler
    \/ WaitReturns
    \/ OutputChild
    \/ OutputReturns
    \/ ChildExits

SpecSpawn == InitSpawn /\ [][NextSpawn]_vars

(***************************************************************************)
(* The configuration loader (core/config/loader.rs) on the rc file         *)
(***************************************************************************)
StartsWith(s, p) == Len(s) >= Len(p) /\ SubSeq(s, 1, Len(p)) = p

EndsWith(s, p) ==
    Len(s) >= Len(p) /\ SubSeq(s, Len(s) - Len(p) + 1, Len(s)) = p

\* str::trim_start_matches(p): every leading repetition of p removed
RECURSIVE TrimStartMatches(_, _)
TrimStartMatches(s, p) ==
    IF p # <<>> /\ StartsWith(s, p)
    THEN TrimStartMatches(SubSeq(s, Len(p) + 1, Len(s)), p)
    ELSE s

\* str::trim_end_matches(p)
RECURSIVE TrimEndMatches(_, _)
TrimEndMatches(s, p) ==
    IF p # <<>> /\ EndsWith(s, p)
    THEN TrimEndMatches(SubSeq(s, 1, Len(s) - Len(p)), p)
    ELSE s

\* str::trim_matches(ch)
TrimMatches(s, ch) == TrimEndMatches(TrimStartMatches(s, <<ch>>), <<ch>>)

\* str::replace(pat, with): every non-overlapping occurrence, left to right
RECURSIVE Replace(_, _, _)
Replace(s, pat, with) ==
    IF s = <<>> THEN <<>>
    ELSE IF StartsWith(s, pat)
         THEN with \o Replace(SubSeq(s, Len(pat) + 1, Len(s)), pat, with)
         ELSE <<Head(s)>> \o Replace(Tail(s), pat, with)

IF_       == <<"i", "f", " ">>
THEN_     == <<"t", "h", "e", "n">>
ELSE_     == <<"e", "l", "s", "e">>
FI        == <<"f", "i">>
TEST_N    == <<"[", " ", "-", "n", " ">>
TEST_Z    == <<"[", " ", "-", "z", " ">>
TEST_END  == <<" ", "]">>
HOME_REF  == <<"$", "H", "O", "M", "E">>
PATH_REF  == <<"$", "P", "A", "T", "H">>

\* ~/.aortarc
RC == <<"~", "/", ".", "a", "o", "r", "t", "a", "r", "c">>

\* what the loader has built so far: Ok, Panic (a slice out of range), the
\* process environment and the alias table of the Config
Loaded(res, env_, aliases_) == [res |-> res, env |-> env_, aliases |-> aliases_]

\* config::EnvVarManager::expand_value: $HOME and $PATH replaced when set
expand_value(value, env_) ==
    Replace(Replace(value, HOME_REF,
                    IF <<"H", "O", "M", "E">> \in DOMAIN env_
                    THEN env_[<<"H", "O", "M", "E">>] ELSE HOME_REF),
            PATH_REF,
            IF PATH \in DOMAIN env_ THEN env_[PATH] ELSE PATH_REF)

\* config::EnvVarManager::set: env::set_var panics on an empty name
ConfigSet(name, value, c) ==
    IF name = <<>> THEN Loaded("Panic", c.env, c.aliases)
    ELSE Loaded("Ok",
                MapPut(c.env, name,
                       IF name = PATH THEN sanitize_path(value) ELSE value),
                c.aliases)

\* ConfigLoader::process_env_var on the text after "export "
process_env_var(var_def, c) ==
    IF Find(var_def, "=") = 0 THEN c
    ELSE IF QuotedBy(Trim(SplitOnce(var_def, "=").after), "\"")
         THEN IF Len(Trim(SplitOnce(var_def, "=").after)) = 1
              THEN Loaded("Panic", c.env, c.aliases)
              ELSE ConfigSet(Trim(SplitOnce(var_def, "=").before),
                             expand_value(
                                 StripQuoteLayer(
                                     Trim(SplitOnce(var_def, "=").after)),
                                 c.env),
                             c)
         ELSE ConfigSet(Trim(SplitOnce(var_def, "=").before),
                        expand_value(Trim(SplitOnce(var_def, "=").after),
                                     c.env),
                        c)

\* ConfigLoader::process_alias on the text after "alias "
process_alias(line, c) ==
    IF Find(line, "=") = 0 THEN c
    ELSE IF QuoteSlicePanics(Trim(SplitOnce(line, "=").after))
         THEN Loaded("Panic", c.env, c.aliases)
         ELSE Loaded("Ok", c.env,
                     MapPut(c.aliases, Trim(SplitOnce(line, "=").before),
                            StripQuoteLayer(Trim(SplitOnce(line, "=").after))))

\* the name inside [ -n "$NAME" ] or [ -z "$NAME" ]
TestedName(condition, test) ==
    TrimMatches(TrimMatches(TrimEndMatches(TrimStartMatches(condition, test),
                                           TEST_END),
                            "\""),
                "$")

\* condition_met of process_conditional, for the tests -n and -z (the
\* files loaded here hold no other test)
condition_met(condition, env_) ==
    IF StartsWith(condition, TEST_N)
    THEN TestedName(condition, TEST_N) \in DOMAIN env_
    ELSE IF StartsWith(condition, TEST_Z)
    THEN TestedName(condition, TEST_Z) \notin DOMAIN env_
    ELSE FALSE

\* lines.skip_while(|l| l.trim() != line) followed by lines.next()
RECURSIVE AfterIfLine(_, _)
AfterIfLine(lines, line) ==
    IF lines = <<>> THEN <<>>
    ELSE IF Trim(Head(lines)) # line THEN AfterIfLine(Tail(lines), line)
    ELSE Tail(lines)

RECURSIVE process_line(_, _, _)
\* the loop of process_conditional over the lines that follow the if line
RECURSIVE Block(_, _, _, _, _)
Block(lines, in_then_block, skip_until_fi, c, rc) ==
    IF lines = <<>> \/ c.res # "Ok" THEN c
    ELSE IF Trim(Head(lines)) = THEN_
    THEN Block(Tail(lines), TRUE, skip_until_fi, c, rc)
    ELSE IF Trim(Head(lines)) = ELSE_
    THEN Block(Tail(lines), in_then_block, ~skip_until_fi, c, rc)
    ELSE IF Trim(Head(lines)) = FI THEN c
    ELSE IF in_then_block /\ ~skip_until_fi
    THEN Block(Tail(lines), in_then_block, skip_until_fi,
               process_line(Trim(Head(lines)), c, rc), rc)
    ELSE Block(Tail(lines), in_then_block, skip_until_fi, c, rc)

\* ConfigLoader::process_conditional: rc is the rc file, read again
process_conditional(line, c, rc) ==
    Block(AfterIfLine(rc, line), FALSE,
          ~condition_met(Trim(TrimStartMatches(line, IF_)), c.env), c, rc)

\* what process_line does with a trimmed line that is neither blank nor a
\* comment (the files loaded here hold exports, aliases and if blocks)
Directive(line, c, rc) ==
    IF line \in {THEN_, ELSE_, FI} THEN c
    ELSE IF StartsWith(line, EXPORT \o <<" ">>)
    THEN process_env_var(SubSeq(line, Len(EXPORT) + 2, Len(line)), c)
    ELSE IF StartsWith(line, ALIAS \o <<" ">>)
    THEN process_alias(SubSeq(line, Len(ALIAS) + 2, Len(line)), c)
    ELSE IF StartsWith(line, IF_) THEN process_conditional(line, c, rc)
    ELSE c

\* ConfigLoader::process_line
process_line(line, c, rc) ==
    IF Trim(line) = <<>> \/ Trim(line)[1] = "#" THEN c
    ELSE Directive(Trim(line), c, rc)

\* ConfigLoader::source_if_exists on the lines of a file that exists:
\* every line of the file goes through process_line
RECURSIVE source_if_exists(_, _, _)
source_if_exists(lines, c, rc) ==
    IF lines = <<>> \/ c.res # "Ok" THEN c
    ELSE source_if_exists(Tail(lines), process_line(Head(lines), c, rc), rc)

(***************************************************************************)
(* Loading an rc file that holds one if block: the test, a then block, an  *)
(* optional else block and the lines after fi, each block of up to MaxBody *)
(* export lines, with the tested variable A set or unset                   *)
(***************************************************************************)
MaxBody == 1

IfSet == IF_ \o TEST_N \o <<"\"", "$", "A", "\"">> \o TEST_END

IfUnset == IF_ \o TEST_Z \o <<"\"", "$", "A", "\"">> \o TEST_END

ThenNames == {<<"T">>, <<"U">>}

ElseNames == {<<"E">>, <<"F">>}

AfterNames == {<<"D">>, <<"G">>}

\* an indented line `export NAME=1`
ExportOf(name) == <<" ">> \o EXPORT \o <<" ">> \o name \o <<"=", "1">>

Bodies(names) ==
    UNION {[1..n -> {ExportOf(x) : x \in names}] : n \in 0..MaxBody}

RcFiles ==
    {[fn |-> "load", cond |-> c, then_ |-> t, has_else |-> h, else_ |-> e,
      after |-> a] :
        c \in {IfSet, IfUnset}, t \in Bodies(ThenNames), h \in BOOLEAN,
        e \in Bodies(ElseNames), a \in Bodies(AfterNames)}

\* the lines of the rc file
RcLines(q) ==
    <<q.cond, THEN_>> \o q.then_
        \o (IF q.has_else THEN <<ELSE_>> \o q.else_ ELSE <<>>)
        \o <<FI>> \o q.after

InitConfig ==
    /\ ShellNew
    /\ call \in {q \in RcFiles : q.has_else \/ q.else_ = <<>>}
    /\ files = MapPut(EmptyMap, RC, FileText(RcLines(call)))
    /\ cfgAliases = EmptyMap
    /\ env \in {InitEnv, MapPut(InitEnv, <<"A">>, ONE)}
    /\ env_vars = env
    /\ cwd = HOME
    /\ current_dir = HOME
    /\ quiet_mode = FALSE
    /\ cmdHistory = <<>>
    /\ pline = <<>>
    /\ presult = NotParsed
    /\ ret = NotCalled

\* ConfigLoader::load_configs with no profile file: the rc file is sourced
DoLoad ==
    /\ call.fn = "load"
    /\ ret = NotCalled
    /\ \E c \in {source_if_exists(Lines(files[RC]),
                                  Loaded("Ok", env, cfgAliases),
                                  Lines(files[RC]))} :
           /\ ret' = [called |-> TRUE, res |-> c.res]
           /\ env' = c.env
           /\ cfgAliases' = c.aliases
           /\ phase' = IF c.res = "Panic" THEN "panicked" ELSE phase
    /\ UNCHANGED <<call, parserVars, procVars, nlines, cmdline, stages, idx,
                   prev, result, log, files, cmdAliases, cwd, current_dir,
                   hist, lastResult, env_vars, cmdHistory, quiet_mode,
                   exit_code, commands>>

NextConfig == DoLoad

SpecConfig == InitConfig /\ [][NextConfig]_vars

(***************************************************************************)
(* The history (input/history): the entries in memory and the history file *)
(***************************************************************************)
\* ~/.aorta_history
HISTORY_FILE == <<"~/.aorta_history">>

Digits == <<"0", "1", "2", "3", "4", "5", "6", "7", "8", "9">>

IsDigit(c) == \E d \in DOMAIN Digits : Digits[d] = c

DigitValue(c) == (CHOOSE d \in DOMAIN Digits : Digits[d] = c) - 1

\* Display of an unsigned integer: its decimal digits
RECURSIVE FormatNat(_)
FormatNat(n) ==
    IF n < Len(Digits) THEN <<Digits[n + 1]>>
    ELSE FormatNat(n \div Len(Digits)) \o <<Digits[(n % Len(Digits)) + 1]>>

\* Display of an i32
FormatInt(n) == IF n < 0 THEN <<"-">> \o FormatNat(0 - n) ELSE FormatNat(n)

RECURSIVE NatOf(_, _)
NatOf(s, acc) ==
    IF s = <<>> THEN acc
    ELSE NatOf(Tail(s), acc * Len(Digits) + DigitValue(Head(s)))

\* what str::parse returns: the number, or an error
Number(ok, value) == [ok |-> ok, value |-> value]

\* str::parse::<u64>: an optional + and then digits, at least one
ParseNat(s) ==
    IF s # <<>> /\ s[1] = "+" /\ Len(s) > 1
          /\ \A i \in 2..Len(s) : IsDigit(s[i])
    THEN Number(TRUE, NatOf(Tail(s), 0))
    ELSE IF s # <<>> /\ \A i \in 1..Len(s) : IsDigit(s[i])
    THEN Number(TRUE, NatOf(s, 0))
    ELSE Number(FALSE, 0)

\* str::parse::<i32>: an optional sign and then digits, at least one
ParseInt(s) ==
    IF s # <<>> /\ s[1] = "-" /\ Len(s) > 1
          /\ \A i \in 2..Len(s) : IsDigit(s[i])
    THEN Number(TRUE, 0 - NatOf(Tail(s), 0))
    ELSE ParseNat(s)

\* HistoryEntry::Command
Command(command, timestamp, exit_code_, duration) ==
    [command |-> command, timestamp |-> timestamp, exit_code |-> exit_code_,
     duration |-> duration]

\* HistoryEntry::new_command at the time `now`
new_command(command, exit_code_, duration, now) ==
    Command(command, now, exit_code_, duration)

\* writeln!(file, "{}|{}|{}|{}", command, timestamp, exit_code, duration)
FormatEntry(e) ==
    e.command \o <<"|">> \o FormatNat(e.timestamp) \o <<"|">>
        \o FormatInt(e.exit_code) \o <<"|">> \o FormatNat(e.duration)
        \o <<"\n">>

\* FileOps::append_entry: the file is created when it is not there, the
\* line goes to its end
append_entry(fs, e) ==
    WriteFile(fs, HISTORY_FILE,
              (IF HISTORY_FILE \in DOMAIN fs THEN fs[HISTORY_FILE] ELSE <<>>)
                  \o FormatEntry(e))

\* what load_entries makes of one line that is not blank
Loaded1(ok, entry) == [ok |-> ok, entry |-> entry]

LoadLine(line, parts, now) ==
    IF Len(parts) = 4
    THEN IF ParseNat(parts[2]).ok /\ ParseInt(parts[3]).ok
              /\ ParseNat(parts[4]).ok
         THEN Loaded1(TRUE, Command(parts[1], ParseNat(parts[2]).value,
                                    ParseInt(parts[3]).value,
                                    ParseNat(parts[4]).value))
         ELSE Loaded1(FALSE, Command(<<>>, 0, 0, 0))
    ELSE Loaded1(TRUE, new_command(line, 0, 0, now))

\* the loop of load_entries over the lines of the file
RECURSIVE LoadLines(_, _, _)
LoadLines(lines, now, entries) ==
    IF lines = <<>> THEN [ok |-> TRUE, entries |-> entries]
    ELSE IF IsBlank(Head(lines)) THEN LoadLines(Tail(lines), now, entries)
    ELSE IF ~LoadLine(Head(lines),
                      SplitAny(Head(lines), {"|"}, <<>>, <<>>), now).ok
    THEN [ok |-> FALSE, entries |-> <<>>]
    ELSE LoadLines(Tail(lines), now,
                   Append(entries,
                          LoadLine(Head(lines),
                                   SplitAny(Head(lines), {"|"}, <<>>, <<>>),
                                   now).entry))

\* FileOps::load_entries, read at the time `now`
load_entries(fs, now) ==
    IF HISTORY_FILE \in DOMAIN fs
    THEN LoadLines(Lines(fs[HISTORY_FILE]), now, <<>>)
    ELSE [ok |-> TRUE, entries |-> <<>>]

\* History::trim_entries with entries evicted from the back
RECURSIVE trim_entries_newest(_, _)
trim_entries_newest(entries, max_entries) ==
    IF Len(entries) > max_entries
    THEN trim_entries_newest(SubSeq(entries, 1, Len(entries) - 1),
                             max_entries)
    ELSE entries

\* History::trim_entries: pop_front while there are more than max_entries
RECURSIVE trim_entries(_, _)
trim_entries(entries, max_entries) ==
    IF Len(entries) > max_entries
    THEN trim_entries(Tail(entries), max_entries)
    ELSE entries

\* History::rewrite_history_file: every entry is appended to the file
RECURSIVE rewrite_history_file(_, _)
rewrite_history_file(fs, entries) ==
    IF entries = <<>> THEN fs
    ELSE rewrite_history_file(append_entry(fs, Head(entries)), Tail(entries))

(***************************************************************************)
(* One History: constructed over a history file of up to MaxEntries + 1    *)
(* lines, then up to MaxOps calls of add_with_details, delete_at and clear *)
(***************************************************************************)
\* max_entries of the History
MaxEntries == 2

MaxOps == 2

\* the seconds the clock may show
Times == {1, 2}

\* exit code and duration of a command
Outcomes == {<<0, 0>>, <<1, 5>>}

\* a, a|b and a blank command
HistoryCommands == {<<"a">>, <<"a", "|", "b">>, <<" ">>}

\* entries left in the file by earlier sessions
OldEntries == {Command(<<"a">>, 1, 0, 0), Command(<<"b">>, 1, 1, 5)}

RECURSIVE FileOf(_)
FileOf(entries) ==
    IF entries = <<>> THEN <<>>
    ELSE FormatEntry(Head(entries)) \o FileOf(Tail(entries))

HistoryFiles ==
    {FileOf(q) : q \in UNION {[1..n -> OldEntries] : n \in 0..(MaxEntries + 1)}}

\* History::new(history_file, max_entries)
InitHistory ==
    /\ ShellNew
    /\ cfgAliases = EmptyMap
    /\ env = InitEnv
    /\ env_vars = InitEnv
    /\ cwd = HOME
    /\ current_dir = HOME
    /\ quiet_mode = FALSE
    /\ pline = <<>>
    /\ presult = NotParsed
    /\ \E t \in HistoryFiles :
           files = IF t = <<>> THEN EmptyMap
                   ELSE MapPut(EmptyMap, HISTORY_FILE, t)
    /\ \E now \in Times : cmdHistory = load_entries(files, now).entries
    /\ call = <<"new">>
    /\ ret = [called |-> TRUE, res |-> "Ok"]

\* what a call on the History leaves behind; the call is recorded as the
\* name of the function followed by its arguments
HistoryCall(c, res, entries, fs) ==
    /\ nlines < MaxOps
    /\ nlines' = nlines + 1
    /\ call' = c
    /\ ret' = [called |-> TRUE, res |-> res]
    /\ cmdHistory' = entries
    /\ files' = fs
    /\ UNCHANGED <<parserVars, procVars, phase, cmdline, stages, idx, prev,
                   result, log, cfgAliases, cmdAliases, env, cwd,
                   current_dir, hist, lastResult, env_vars, quiet_mode,
                   exit_code, commands>>

\* History::add_with_details
AddWithDetails ==
    \E command \in HistoryCommands : \E o \in Outcomes : \E now \in Times :
    \E c \in {<<"add_with_details", command, o[1], o[2], now>>} :
    \E entry \in {new_command(command, o[1], o[2], now)} :
        IF IsBlank(command)
        THEN HistoryCall(c, "EmptyCommand", cmdHistory, files)
        ELSE HistoryCall(c, "Ok",
                         trim_entries(Append(cmdHistory, entry), MaxEntries),
                         append_entry(files, entry))

\* History::delete_at
DeleteAt ==
    \E index \in 0..MaxEntries :
    \E c \in {<<"delete_at", index>>} :
        IF index >= Len(cmdHistory)
        THEN HistoryCall(c, "InvalidIndex", cmdHistory, files)
        ELSE HistoryCall(c, "Ok", RemoveAt(cmdHistory, index),
                         rewrite_history_file(files,
                                              RemoveAt(cmdHistory, index)))

\* History::clear
Clear == HistoryCall(<<"clear">>, "Ok", <<>>, files)

NextHistory ==
    \/ AddWithDetails
    \/ DeleteAt
    \/ Clear

SpecHistory == InitHistory /\ [][NextHistory]_vars

(***************************************************************************)
(* execute_command: from the prompt to the start of the stage loop         *)
(***************************************************************************)
\* every value of the environment is expanded before the pipeline runs
EnvExpands(env_) ==
    \A n \in DOMAIN env_ : expand_env_vars(env_[n], env_).done

ReadLine(l) ==
    /\ phase = "prompt"
    /\ nlines' = nlines + 1
    /\ cmdline' = l
    /\ IF IsBlank(l)
       THEN /\ lastResult' = "Ok"
            /\ UNCHANGED <<phase, stages, idx, prev, result, log>>
       ELSE LET expanded == expand_env_vars(l, env)
                pipeline == Parse(expanded.text)
            IN  IF ~expanded.done
                THEN /\ phase' = "hung"
                     /\ UNCHANGED <<stages, idx, prev, result, log,
                                    lastResult>>
                ELSE IF ~pipeline.ok
                THEN /\ lastResult' = pipeline.err
                     /\ UNCHANGED <<phase, stages, idx, prev, result,
                                    log>>
                ELSE IF ~EnvExpands(env)
                THEN /\ phase' = "hung"
                     /\ UNCHANGED <<stages, idx, prev, result, log,
                                    lastResult>>
                ELSE /\ phase' = "exec"
                     /\ stages' = pipeline.stages
                     /\ idx' = 1
                     /\ prev' = None
                     /\ result' = "running"
                     /\ log' = <<>>
                     /\ UNCHANGED lastResult
    /\ UNCHANGED <<parserVars, callVars, procVars,
                   files, cfgAliases, cmdAliases, env,
                   cwd, current_dir, hist, env_vars, cmdHistory, quiet_mode,
                   exit_code, commands>>

(***************************************************************************)
(* execute_with_context: one iteration of the stage loop per action        *)
(***************************************************************************)
InLoop == phase = "exec" /\ result = "running" /\ idx <= Len(stages)

DispatchOps == {"And", "Or", "Sequence", "None"}

\* .map_err(|e| PipelineError::ExecutionError(e.to_string()))? with the
\* error dropped instead of returned
Try_swallow(res) == "running"

\* .map_err(|e| PipelineError::ExecutionError(e.to_string()))?
Try(res) == IF res = "Err" THEN "ExecutionError" ELSE "running"

\* the loop index after a stage: the same stage when the function returned
Advance(r, k) == IF r = "running" THEN k + 1 ELSE k

\* `break` taken as `continue`
Break_continues(k, n) == k + 1

\* `break` in the Redirect arm: the loop index moves past the last stage
Break(k, n) == n + 1

\* what one iteration of the loop leaves behind
Step(ph, res, k, pv, lg, fs) ==
    /\ phase' = ph
    /\ result' = res
    /\ idx' = k
    /\ prev' = pv
    /\ log' = lg
    /\ files' = fs

\* expanded_parts[0] on an empty vector: the thread panics
Panic == Step("panicked", result, idx, prev, log, files)

\* `if command == "grep"` with every command taken for grep
IsGrep_any(command) == TRUE

\* `if command == "grep"` in the Pipe arm
IsGrep(command) == command = GREP

\* Some(PipelineOperator::Pipe), both arms
StagePipe ==
    /\ InLoop
    /\ stages[idx].operator = "Pipe"
    /\ \E r \in {Resolve(stages[idx], cfgAliases)} :
           IF r.panic
           THEN /\ Panic
                /\ UNCHANGED <<cwd, cmdAliases, env, env_vars, cmdHistory,
                               exit_code, commands>>
           ELSE IF IsGrep(r.command)
           THEN IF r.args = <<>>
                THEN /\ Step("exec", "ExecutionError", idx, prev, log, files)
                     /\ UNCHANGED <<cwd, cmdAliases, env, env_vars,
                                    cmdHistory, exit_code, commands>>
                ELSE \E f1 \in {WriteFile(files, temp_input,
                                 IF prev.some THEN prev.bytes ELSE NoBytes)} :
                     \E d \in {Execute(r.command, r.args \o <<temp_input>>, idx,
                                       World(cwd, cmdAliases, env, env_vars,
                                             cmdHistory, commands),
                                       f1, quiet_mode)} :
                     \E c \in {Capture(GREP, r.args \o <<temp_input>>, idx, f1,
                                       d.world.env)} :
                     \E f2 \in {RemoveFile(RemoveFile(f1, temp_input),
                                            temp_output)} :
                         IF d.res = "Exit"
                         THEN /\ Step("exited", result, idx, None,
                                      log \o d.events, f1)
                              /\ exit_code' = ExitStatus
                              /\ UNCHANGED <<cwd, cmdAliases, env, env_vars,
                                             cmdHistory, commands>>
                         ELSE IF d.res = "Panic"
                         THEN /\ Step("panicked", result, idx, None,
                                      log \o d.events, f1)
                              /\ UNCHANGED <<cwd, cmdAliases, env, env_vars,
                                             cmdHistory, exit_code, commands>>
                         ELSE /\ Adopt(d.world)
                              /\ UNCHANGED exit_code
                              /\ IF Try(d.res) # "running"
                                 THEN Step("exec", Try(d.res), idx, None,
                                           log \o d.events, f1)
                                 ELSE IF temp_output \in DOMAIN f1
                                 THEN Step("exec", "running", idx + 1,
                                           Some(f1[temp_output]),
                                           log \o d.events, f2)
                                 ELSE IF Try(c.res) # "running"
                                 THEN Step("exec", Try(c.res), idx, None,
                                           log \o d.events \o c.events, f1)
                                 ELSE Step("exec", "running", idx + 1,
                                           Some(c.out),
                                           log \o d.events \o c.events, f2)
           ELSE \E c \in {Capture(r.command, r.args, idx, files, env)} :
                    /\ Step("exec", Try(c.res), Advance(Try(c.res), idx),
                            IF Try(c.res) = "running" THEN Some(c.out)
                            ELSE prev,
                            log \o c.events, files)
                    /\ UNCHANGED <<cwd, cmdAliases, env, env_vars,
                                   cmdHistory, exit_code, commands>>
    /\ UNCHANGED <<parserVars, callVars, procVars,
                   nlines, cmdline, stages, cfgAliases,
                   current_dir, hist, lastResult, quiet_mode>>

\* Some(And) | Some(Or) | Some(Sequence) | None
StageDispatch ==
    /\ InLoop
    /\ stages[idx].operator \in DispatchOps
    /\ \E r \in {Resolve(stages[idx], cfgAliases)} :
       \E d \in {Execute(r.command, r.args, idx,
                         World(cwd, cmdAliases, env, env_vars, cmdHistory,
                               commands),
                         files, quiet_mode)} :
           IF r.panic
           THEN /\ Panic
                /\ UNCHANGED <<cwd, cmdAliases, env, env_vars, cmdHistory,
                               exit_code, commands>>
           ELSE IF d.res = "Exit"
           THEN /\ Step("exited", result, idx, prev, log \o d.events, files)
                /\ exit_code' = ExitStatus
                /\ UNCHANGED <<cwd, cmdAliases, env, env_vars, cmdHistory,
                               commands>>
           ELSE IF d.res = "Panic"
           THEN /\ Step("panicked", result, idx, prev, log \o d.events, files)
                /\ UNCHANGED <<cwd, cmdAliases, env, env_vars, cmdHistory,
                               exit_code, commands>>
           ELSE /\ Step("exec", Try(d.res), Advance(Try(d.res), idx),
                        IF Try(d.res) = "running" THEN None ELSE prev,
                        log \o d.events, files)
                /\ Adopt(d.world)
                /\ UNCHANGED exit_code
    /\ UNCHANGED <<parserVars, callVars, procVars,
                   nlines, cmdline, stages, cfgAliases,
                   current_dir, hist, lastResult, quiet_mode>>

\* Some(PipelineOperator::Redirect)
StageRedirect ==
    /\ InLoop
    /\ stages[idx].operator = "Redirect"
    /\ \E r \in {Resolve(stages[idx], cfgAliases)} :
       \E n \in {Len(stages)} :
           IF r.panic THEN Panic
           ELSE IF idx + 1 <= n
           THEN \E target \in {stages[idx + 1].command} :
                \E c \in {Capture(r.command, r.args, idx, files, env)} :
                LET w(bytes) == Effect("write", idx, <<target>>, "none", bytes,
                                       "Ok", files)
                IN  IF prev.some
                    THEN IF CanWrite(target)
                         THEN Step("exec", "running", Break(idx, n), None,
                                   Append(log, w(prev.bytes)),
                                   WriteFile(files, target, prev.bytes))
                         ELSE Step("exec", "IoError", idx, None, log, files)
                    ELSE IF Try(c.res) # "running"
                         THEN Step("exec", Try(c.res), idx, prev,
                                   log \o c.events, files)
                         ELSE IF CanWrite(target)
                         THEN Step("exec", "running", Break(idx, n), None,
                                   Append(log \o c.events, w(c.out)),
                                   WriteFile(files, target, c.out))
                         ELSE Step("exec", "IoError", idx, prev,
                                   log \o c.events, files)
           ELSE Step("exec", "ExecutionError", idx, prev, log, files)
    /\ UNCHANGED <<parserVars, callVars, procVars,
                   nlines, cmdline, stages, cfgAliases,
                   cmdAliases, env, cwd, current_dir, hist, lastResult,
                   env_vars, cmdHistory, quiet_mode, exit_code, commands>>

\* the end of execute_with_context and the rest of execute_command: the
\* pending buffer is printed, the line goes to the history (add_with_details
\* may fail to store it, which only prints a warning), current_dir is
\* refreshed on success
FinishPipeline ==
    /\ phase = "exec"
    /\ result # "running" \/ idx > Len(stages)
    /\ LET res == IF result = "running" THEN "Ok" ELSE result
       IN  /\ result' = res
           /\ lastResult' = res
           /\ log' = IF res = "Ok" /\ prev.some /\ prev.bytes # NoBytes
                     THEN Append(log, Effect("print", 0, <<>>, "none",
                                             prev.bytes, "Ok", files))
                     ELSE log
           /\ \E stored \in BOOLEAN :
                  hist' = Append(hist, [command |-> cmdline,
                                        exit_code |-> IF res = "Ok" THEN 0 ELSE 1,
                                        stored |-> stored])
           /\ current_dir' = IF res = "Ok" THEN cwd ELSE current_dir
    /\ phase' = "prompt"
    /\ UNCHANGED <<parserVars, callVars, procVars,
                   nlines, cmdline, stages, idx, prev,
                   files, cfgAliases, cmdAliases, env, cwd, env_vars,
                   cmdHistory, quiet_mode, exit_code, commands>>

(***************************************************************************)
(* One pipeline: every line of up to MaxStages stages over StageTexts      *)
(***************************************************************************)
StageTexts ==
    {<<LS>>, <<GREP, P>>, <<NOX>>, <<DIR>>, <<FALSE_>>, <<LL, X>>, <<CD, NOX>>}

OpText(op) ==
    CASE op = "Pipe"     -> <<"|">>
      [] op = "And"      -> <<"&", "&">>
      [] op = "Or"       -> <<"|", "|">>
      [] op = "Sequence" -> <<";">>
      [] op = "Redirect" -> <<">">>
      [] op = "None"     -> <<>>

\* the operators a stage text may be followed by at the end of a line
LastOps == {"None", "Sequence", "Redirect", "Or"}

\* n stages: every stage but the last is followed by an operator
StageChoices(n) ==
    {f \o <<g>> : f \in [1..(n - 1) -> StageTexts \X PipelineOperator],
                  g \in StageTexts \X LastOps}

\* stages that name a built-in: cd /d, export X=1, alias k=ls, exit
BuiltinStages ==
    {<<CD, DIR>>, <<EXPORT, <<"X", "=", "1">>>>,
     <<ALIAS, <<"k", "=", "l", "s">>>>, <<EXIT>>}

RECURSIVE Render(_)
Render(f) ==
    IF f = <<>> THEN <<>>
    ELSE JoinSp(f[1][1]) \o <<" ">> \o OpText(f[1][2])
         \o (IF Len(f) = 1 THEN <<>> ELSE <<" ">> \o Render(Tail(f)))

\* further lines: three stages around a redirect, a failure in the middle,
\* grep between two pipes, grep without a pattern, an alias with an empty
\* value, a built-in before a pipe, a pipe at the end of the line
LongLines ==
    {Render(<<<<a, "Pipe">>, <<b, "Redirect">>, <<<<LS>>, "None">>>>) :
        a \in {<<LS>>, <<NOX>>}, b \in {<<GREP, P>>, <<FALSE_>>, <<NOX>>}}
    \cup
    {Render(<<<<a, "Redirect">>, <<<<LS>>, op>>, <<<<LS>>, "None">>>>) :
        a \in {<<LS>>, <<NOX>>, <<CD, NOX>>}, op \in PipelineOperator}
    \cup
    {Render(<<<<<<LS>>, "Sequence">>, <<a, op>>, <<<<LS>>, "None">>>>) :
        a \in {<<CD, NOX>>, <<DIR>>, <<NOX>>}, op \in {"And", "Pipe"}}
    \cup
    {Render(<<<<<<LS>>, "Pipe">>, <<<<GREP, P>>, "Pipe">>, <<a, "None">>>>) :
        a \in {<<LS>>, <<GREP, P>>}}
    \cup
    {Render(<<<<a, op>>, <<<<LS>>, "None">>>>) :
        a \in {<<GREP>>, <<E>>}, op \in PipelineOperator}
    \cup
    {Render(<<<<<<LS>>, op>>, <<a, "None">>>>) :
        a \in {<<GREP>>, <<E>>}, op \in PipelineOperator}
    \cup
    {Render(<<<<a, "Pipe">>, <<<<LS>>, "None">>>>) : a \in BuiltinStages}
    \cup
    {JoinSp(<<LS, <<"|">>>>)}

InitExec ==
    /\ ShellInit
    /\ pline = <<>>
    /\ presult = NotParsed
    /\ call = NoCall
    /\ ret = NotCalled

ReadGenerated ==
    /\ nlines = 0
    /\ \E n \in 1..MaxStages : \E f \in StageChoices(n) : ReadLine(Render(f))

ReadLong == nlines = 0 /\ \E l \in LongLines : ReadLine(l)

NextExec ==
    \/ ReadGenerated
    \/ ReadLong
    \/ StagePipe
    \/ StageDispatch
    \/ StageRedirect
    \/ FinishPipeline

SpecExec == InitExec /\ [][NextExec]_vars

(***************************************************************************)
(* The interactive session: up to MaxLines lines typed at the prompt       *)
(***************************************************************************)
\* the words of a line joined by single spaces
Line(ws) == JoinSp(ws)

\* export X=1;echo $X
ExportEchoLine ==
    Line(<<EXPORT, <<"X", "=", "1", ";", "e", "c", "h", "o">>, <<"$", "X">>>>)

\* export PATH=/a:/a ; ls
ExportPathLine ==
    Line(<<EXPORT, <<"P", "A", "T", "H", "=", "/", "a", ":", "/", "a">>,
           <<";">>, LS>>)

SessionLines ==
    {Line(<<ALIAS, <<"k", "=", "'", "l", "s">>, <<"-", "l", "a", "'">>>>),
     Line(<<<<"k">>, X>>),
     Line(<<LS>>),
     Line(<<CD, DIR>>),
     Line(<<CD, NOX, <<";">>, LS>>),
     Line(<<LS, <<"|">>, GREP, P>>),
     Line(<<GREP, P, <<"|">>, LS>>),
     Line(<<CD, DIR, <<";">>, CD, NOX>>),
     Line(<<LS, <<">">>, <<"f">>>>),
     Line(<<LS, <<"|">>>>),
     Line(<<EXIT>>),
     Line(<<E>>),
     <<" ">>,
     ExportEchoLine,
     Line(<<EXIT, <<";">>, LS>>),
     Line(<<LS, <<";">>, EXIT, <<";">>, LS>>),
     Line(<<EXIT, <<"|">>, LS>>),
     Line(<<CD, DIR, <<";">>, LS, <<"|">>>>),
     Line(<<LS, <<"&", "&">>>>),
     Line(<<<<";">>, LS>>),
     ExportPathLine}

Init ==
    /\ ShellInit
    /\ pline = <<>>
    /\ presult = NotParsed
    /\ call = NoCall
    /\ ret = NotCalled

\* Shell::run: readline returned a line and execute_command is called
ReadAny == nlines < MaxLines /\ \E l \in SessionLines : ReadLine(l)

\* Shell::run: readline returned Eof; the loop breaks and run returns Ok
ReadEof ==
    /\ phase = "prompt"
    /\ phase' = "ended"
    /\ UNCHANGED <<parserVars, callVars, procVars,
                   nlines, cmdline, stages, idx, prev,
                   result, log, files, cfgAliases, cmdAliases, env, cwd,
                   current_dir, hist, lastResult, env_vars, cmdHistory,
                   quiet_mode, exit_code, commands>>

Next ==
    \/ ReadAny
    \/ ReadEof
    \/ StagePipe
    \/ StageDispatch
    \/ StageRedirect
    \/ FinishPipeline

Spec == Init /\ [][Next]_vars

(***************************************************************************)
(* The operators of a line, read off the line without scanning it: inside  *)
(* a maximal run of one character the pairs start at the even offsets.     *)
(***************************************************************************)
RunStart(s, i) ==
    CHOOSE j \in 1..i :
        /\ \A k \in j..i : s[k] = s[i]
        /\ (j = 1 \/ s[j - 1] # s[i])

EvenOffset(s, i) == (i - RunStart(s, i)) % 2 = 0

CharAfter(s, i) == IF i < Len(s) THEN s[i + 1] ELSE "EOF"

\* the operator that begins at position i, "None" when none does
OperatorAt(s, i) ==
    IF s[i] = ";" THEN "Sequence"
    ELSE IF s[i] = ">" THEN "Redirect"
    ELSE IF s[i] = "|" /\ EvenOffset(s, i)
         THEN (IF CharAfter(s, i) = "|" THEN "Or" ELSE "Pipe")
    ELSE IF s[i] = "&" /\ EvenOffset(s, i) /\ CharAfter(s, i) = "&" THEN "And"
    ELSE "None"

OpWidth(op) == IF op \in {"Or", "And"} THEN 2 ELSE 1

OpStarts(s) == {i \in 1..Len(s) : OperatorAt(s, i) # "None"}

KthOp(s, k) ==
    CHOOSE i \in OpStarts(s) : Cardinality({j \in OpStarts(s) : j < i}) = k - 1

\* first position after the k-th operator (1 for k = 0)
AfterOp(s, k) ==
    IF k = 0 THEN 1 ELSE KthOp(s, k) + OpWidth(OperatorAt(s, KthOp(s, k)))

\* the text between operator k-1 and operator k; the rest of the line for
\* k = number of operators + 1
Segment(s, k) ==
    IF k <= Cardinality(OpStarts(s))
    THEN SubSeq(s, AfterOp(s, k - 1), KthOp(s, k) - 1)
    ELSE SubSeq(s, AfterOp(s, k - 1), Len(s))

\* the whitespace-delimited tokens of a text, by their first positions
TokenStarts(t) ==
    {i \in 1..Len(t) : ~IsWS(t[i]) /\ (i = 1 \/ IsWS(t[i - 1]))}

TokenEnd(t, i) ==
    CHOOSE j \in i..Len(t) :
        /\ \A k \in i..j : ~IsWS(t[k])
        /\ (j = Len(t) \/ IsWS(t[j + 1]))

TokensOf(t) ==
    LET starts == TokenStarts(t)
        kth(k) == CHOOSE i \in starts : Cardinality({j \in starts : j < i}) = k - 1
    IN  [k \in 1..Cardinality(starts) |-> SubSeq(t, kth(k), TokenEnd(t, kth(k)))]

SegmentStage(s, k, op) ==
    LET toks == TokensOf(Segment(s, k))
    IN  [command |-> toks[1], args |-> Tail(toks), operator |-> op]

ExpectedStages(s) ==
    LET n == Cardinality(OpStarts(s))
    IN  [k \in 1..n |-> SegmentStage(s, k, OperatorAt(s, KthOp(s, k)))]
        \o (IF IsBlank(Segment(s, n + 1)) THEN <<>>
            ELSE <<SegmentStage(s, n + 1, "None")>>)

\* the last operator of the line is followed by nothing or by whitespace only
DanglingOperator(s) ==
    /\ OpStarts(s) # {}
    /\ IsBlank(Segment(s, Cardinality(OpStarts(s)) + 1))

(***************************************************************************)
(* Claims about the parser (checked under SpecParse)                       *)
(***************************************************************************)
Parsed == presult # NotParsed

\* C1: every Pipeline that parse returns as Ok is non-empty, its last stage
\* has operator None and every stage before the last has an operator.
\* (Stated as the claim states it; "a;" is accepted with a last stage that
\* carries Sequence.)
C1_LastStageHasNoOperator ==
    (Parsed /\ presult.ok) =>
        /\ presult.stages # <<>>
        /\ presult.stages[Len(presult.stages)].operator = "None"
        /\ \A k \in 1..(Len(presult.stages) - 1) :
               presult.stages[k].operator \in PipelineOperator

\* C2: a line whose last operator is followed by nothing or only by
\* whitespace is rejected with a ParseError.  (Stated as the claim states
\* it; the code rejects only a dangling | and a dangling &&.)
C2_DanglingOperatorRejected ==
    (Parsed /\ DanglingOperator(pline)) =>
        (~presult.ok /\ presult.err = "ParseError")

\* C3: for every accepted line the stages are the operator-free segments of
\* the line in order; each stage's command is the first token of its
\* segment, its args the remaining tokens, its operator the one that
\* followed the segment; a single & stays an ordinary character.
C3_StagesAreSegments ==
    (Parsed /\ presult.ok) => presult.stages = ExpectedStages(pline)

\* an accepted line of two stages whose first stage has an argument that
\* holds a single &
C3_Witness ==
    /\ Parsed /\ presult.ok
    /\ Len(presult.stages) = 2
    /\ presult.stages[1].operator = "Pipe"
    /\ presult.stages[1].args = << <<"&">> >>

(***************************************************************************)
(* Claims about the pipeline executor (checked under SpecExec)             *)
(***************************************************************************)
ProgramKinds == {"builtin", "spawn", "capture"}

\* the positions of the log at which a command was handed to the
\* Dispatcher or spawned directly
Runs == {i \in 1..Len(log) : log[i].kind \in ProgramKinds}

\* C4, state part: an error returned by the Dispatcher, a built-in or a
\* direct spawn is the last effect of the pipeline, the pipeline returns
\* ExecutionError, and the loop index stays at the failing stage.
C4_FailureIsLast ==
    \A i \in 1..Len(log) :
        log[i].outcome = "Err" =>
            /\ result = "ExecutionError"
            /\ i = Len(log)
            /\ idx = log[i].stage

\* C4, step part: the step that returns ExecutionError undoes nothing: the
\* effects logged so far, the working directory, the environment, the alias
\* table and every file other than the temporary input file are kept.
C4_FailureKeepsEffects ==
    (result = "running" /\ result' = "ExecutionError") =>
        /\ Len(log') >= Len(log)
        /\ SubSeq(log', 1, Len(log)) = log
        /\ cwd' = cwd /\ env' = env /\ cmdAliases' = cmdAliases
        /\ \A q \in DOMAIN files \ {temp_input} :
               q \in DOMAIN files' /\ files'[q] = files[q]

\* C4: if executing stage i fails, execute_with_context returns
\* PipelineError::ExecutionError immediately, no stage j > i is executed and
\* the effects of the stages before i are kept.
C4_FailureAborts == []C4_FailureIsLast /\ [][C4_FailureKeepsEffects]_vars

\* the second of three stages failed after the first had run
C4_Witness ==
    /\ result = "ExecutionError"
    /\ Len(stages) = 3 /\ idx = 2
    /\ Len(log) = 2
    /\ log[1].stage = 1 /\ log[1].outcome = "exit0"
    /\ log[2].stage = 2 /\ log[2].outcome = "Err"

\* a step of the And | Or | Sequence | None arm
DispatchStep ==
    /\ InLoop
    /\ stages[idx].operator \in DispatchOps
    /\ ~Resolve(stages[idx], cfgAliases).panic

Proceeds == result' = "running" /\ idx' = idx + 1 /\ prev' = None

C6_PipeFeedsNextStage ==
    \A j \in Runs :
        (/\ log[j].outcome \in {"exit0", "exit1"}
         /\ log[j].stage > 1
         /\ stages[log[j].stage - 1].operator = "Pipe") =>
            \E i \in 1..(j - 1) :
                /\ log[i].kind = "capture"
                /\ log[i].stage = log[j].stage - 1
                /\ log[i].outcome # "Err"
                /\ \E r \in 1..Len(log[j].read) :
                       log[j].read[r].bytes = log[i].out

\* stage k has been processed by the loop
Passed(k) ==
    /\ idx > k
    /\ \A m \in 1..(k - 1) : stages[m].operator # "Redirect"

\* C7: once the loop has processed a Redirect stage that has a next stage,
\* the last effect is the write to the file named by the next stage's
\* command field and the loop is over; the target stage and the stages
\* after it are never executed.
C7_RedirectStops ==
    \A k \in 1..(Len(stages) - 1) :
        stages[k].operator = "Redirect" =>
            /\ \A i \in 1..Len(log) : log[i].stage <= k
            /\ Passed(k) =>
                  /\ idx = Len(stages) + 1
                  /\ log # <<>>
                  /\ LET w == log[Len(log)]
                         target == stages[k + 1].command
                     IN  /\ w.kind = "write" /\ w.stage = k
                         /\ w.argv = <<target>>
                         /\ target \in DOMAIN files
                         /\ files[target] = w.out

\* a redirect as the first of three stages has written its file and the
\* loop is over
C7_Witness ==
    /\ Len(stages) = 3
    /\ stages[1].operator = "Redirect"
    /\ Passed(1)
    /\ phase = "prompt"
    /\ stages[2].command \in DOMAIN files

\* C8: the bytes written to a redirect target are the standard output of
\* the stage that carries the Redirect operator.  (Stated as the claim
\* states it; after a Pipe stage the file gets the previous stage's bytes.)
C8_RedirectWritesOwnOutput ==
    \A j \in 1..Len(log) :
        log[j].kind = "write" =>
            \E i \in 1..(j - 1) :
                /\ log[i].kind = "capture"
                /\ log[i].stage = log[j].stage
                /\ log[i].out = log[j].out

\* what alias resolution is claimed to hand on for a stage
Resolved(stage) ==
    IF stage.command \in DOMAIN cfgAliases
    THEN TokensOf(cfgAliases[stage.command]) \o stage.args
    ELSE <<stage.command>> \o stage.args

\* C9: the command and arguments a stage is run with are the tokens of the
\* alias value followed by the stage's own args when the stage's command is
\* an alias key, and the stage's command and args otherwise; the result is
\* not looked up again and args are not expanded.  (The Pipe arm for grep
\* appends the temporary input file as one more argument.)
C9_AliasResolution ==
    \A j \in Runs :
        LET st == stages[log[j].stage]
        IN  \/ log[j].argv = Resolved(st)
            \/ /\ st.operator = "Pipe"
               /\ Resolved(st)[1] = GREP
               /\ log[j].argv = Resolved(st) \o <<temp_input>>

\* `ll x` ran as `ls -la x`: ls is an alias key too and x as well
C9_Witness ==
    \E j \in Runs :
        /\ stages[log[j].stage].command = LL
        /\ stages[log[j].stage].args = <<X>>
        /\ log[j].argv = <<LS, LA, X>>
        /\ {LS, X} \subseteq DOMAIN cfgAliases

(***************************************************************************)
(* Claims about the session (checked under Spec)                           *)
(***************************************************************************)
\* C10: an alias inserted by the `alias name=value` built-in on an earlier
\* line is used by the executor on every later line: a stage whose command
\* is such a name runs the tokens of the value followed by its own args.
\* (Stated as the claim states it; the built-in writes a table of its own
\* that get_aliases() never reads.)
C10_AliasBuiltinFeedsExecutor ==
    (\A i \in Runs : ~(log[i].kind = "builtin" /\ log[i].argv[1] = ALIAS)) =>
        \A j \in Runs :
            LET st == stages[log[j].stage]
            IN  st.command \in DOMAIN cmdAliases =>
                    log[j].argv = TokensOf(cmdAliases[st.command]) \o st.args

\* C11: for the first line `export X=1;echo $X` of a session, X being
\* unset before, the second stage runs `echo 1`.  (Stated as the claim
\* states it; the whole line is expanded before it is parsed, so `$X` is
\* replaced while X is still unset and the second stage runs `echo`.)
C11_SecondStageSeesExport ==
    (nlines = 1 /\ cmdline = ExportEchoLine) =>
        \A j \in Runs : log[j].stage = 2 => log[j].argv = <<ECHO, ONE>>

(***************************************************************************)
(* Claims about expand_env_vars (checked under SpecExpand)                 *)
(***************************************************************************)
\* one left-to-right pass over the text: every $ that is not the last
\* character is replaced, together with the maximal run of name characters
\* after it, by the value of that name, or by nothing when the name is
\* unset; what was substituted is not looked at again
RECURSIVE SubstOnce(_, _)
SubstOnce(s, e) ==
    IF s = <<>> THEN <<>>
    ELSE IF Head(s) = "$" /\ Len(s) > 1
    THEN LET var_end == NameEnd(s, 2)
             name    == SubSeq(s, 2, var_end - 1)
         IN  (IF name \in DOMAIN e THEN e[name] ELSE <<>>)
                 \o SubstOnce(SubSeq(s, var_end, Len(s)), e)
    ELSE <<Head(s)>> \o SubstOnce(Tail(s), e)

\* the $NAME references of a text: the positions of a $ followed by a name
\* character
References(s) == {i \in 1..(Len(s) - 1) : s[i] = "$" /\ s[i + 1] \in NameChars}

Expanded == ret # NotCalled /\ call.fn = "expand_env_vars"

\* C12: expand_env_vars replaces each $NAME of its input by the current
\* value of NAME when NAME is set and by the empty string when it is unset,
\* and the result holds no $NAME with an unset NAME.  (Stated as the claim
\* states it; a value that holds a $ is scanned again, so the result is not
\* the value.)
C12_ReplacesEachReference ==
    Expanded =>
        /\ ret.done
        /\ ret.text = SubstOnce(call.input, env)
        /\ \A i \in References(ret.text) :
               SubSeq(ret.text, i + 1, NameEnd(ret.text, i + 1) - 1) \in DOMAIN env

\* C13: substitution is not recursive: the expansion of `$NAME` for a set
\* NAME is the value of NAME as it stands, a $ reference inside the value
\* included.  (Stated as the claim states it; the loop searches the whole
\* result again after every substitution.)
C13_ValueIsNotExpanded ==
    \A n \in DOMAIN env :
        (Expanded /\ call.input = <<"$">> \o n) =>
            (ret.done /\ ret.text = env[n])

(***************************************************************************)
(* Claims about expand_command (checked under SpecAlias)                   *)
(***************************************************************************)
\* the line with its first whitespace-delimited token replaced by the alias
\* value when that token is a key, every other character left in place
FirstTokenReplaced(line, aliases) ==
    IF TokenStarts(line) = {} THEN line
    ELSE LET i == CHOOSE a \in TokenStarts(line) :
                      \A b \in TokenStarts(line) : a <= b
             j == TokenEnd(line, i)
             first == SubSeq(line, i, j)
         IN  IF first \in DOMAIN aliases
             THEN SubSeq(line, 1, i - 1) \o aliases[first]
                      \o SubSeq(line, j + 1, Len(line))
             ELSE line

FirstTokenIsKey(line, aliases) ==
    TokensOf(line) # <<>> /\ TokensOf(line)[1] \in DOMAIN aliases

\* C14: expand_command replaces only the first whitespace-delimited token,
\* when it is an alias key, and leaves the rest of the line character for
\* character as it was; a line whose first token is no key comes back
\* unchanged, and so does an expanded line whose first token is no key when
\* it is expanded again.  (Stated as the claim states it; the tokens are
\* joined again with single spaces.)
C14_OnlyFirstTokenReplaced ==
    (ret # NotCalled /\ call.fn = "expand_command") =>
        /\ ret.text = FirstTokenReplaced(call.command, cfgAliases)
        /\ ~FirstTokenIsKey(ret.text, cfgAliases) =>
               expand_command(cfgAliases, ret.text) = ret.text

(***************************************************************************)
(* Claims about the dispatcher and the spawner (checked under              *)
(* SpecDispatch)                                                           *)
(***************************************************************************)
Dispatched == ret # NotCalled /\ call.fn = "execute"

SpawnedAlone == ret # NotCalled /\ call.fn = "spawn_process"

\* the names under which a program exists on the machine
Executables == {n \in DispatchNames : ProgramKind(n) \in {"exit0", "exit1"}}

C16_MissingProgramIsOk ==
    (SpawnedAlone /\ ProgramKind(call.args[1]) = "missing") =>
        /\ ret.res = "Ok"
        /\ (ret.diag = <<"command not found">>) <=> ~quiet_mode
        /\ ret.diag # <<"command not found">> => ret.diag = <<>>
        /\ ~ret.waited
        /\ ~ret.handler

\* a missing program was spawned in quiet mode and nothing was printed
C16_Witness ==
    /\ SpawnedAlone
    /\ call.args[1] = NOX
    /\ quiet_mode
    /\ ret.res = "Ok"
    /\ ret.diag = <<>>

\* C17: execute with a name that is neither a built-in nor an existing
\* executable returns Err(CommandError::NotFound).  (Stated as the claim
\* states it; the spawner turns a missing executable into Ok(()).)
C17_UnknownCommandIsNotFound ==
    (Dispatched /\ call.name \notin Builtins \cup Executables
                /\ ProgramKind(call.name) = "missing") =>
        (ret.res = "Err" /\ ret.err = "NotFound")

CdCalled == call.fn = "execute" /\ call.name = CD /\ ret = NotCalled

\* C18: cd to a path that does not exist or is no directory returns
\* CommandError::ExecutionError and leaves the working directory as it
\* was; cd without an argument changes the working directory to the home
\* directory.
C18_CdFailureKeepsDirectory ==
    [][CdCalled =>
        IF call.args = <<>>
        THEN ret'.res = "Ok" /\ cwd' = HOME
        ELSE call.args[1] \notin Directories \cup {TILDE} =>
                 /\ ret'.res = "Err"
                 /\ ret'.err = "ExecutionError"
                 /\ cwd' = cwd]_vars

\* cd to a path that does not exist failed in /d and the shell is still
\* in /d
C18_Witness ==
    /\ Dispatched
    /\ call.name = CD
    /\ call.args = <<NOX>>
    /\ ret.err = "ExecutionError"
    /\ cwd = DIR

\* an export request as the claim reads it: the text before the first =
\* is NAME, the text after it VALUE
HasEquals(arg) == \E i \in 1..Len(arg) : arg[i] = "="

NameOf(arg) == SubSeq(arg, 1, Find(arg, "=") - 1)

ValueOf(arg) == SubSeq(arg, Find(arg, "=") + 1, Len(arg))

\* VALUE without one layer of surrounding matching quotes
Unquoted(v) ==
    IF Len(v) >= 2 /\ v[1] \in {"'", "\""} /\ v[Len(v)] = v[1]
    THEN SubSeq(v, 2, Len(v) - 1)
    ELSE v

ExportCalled == call.fn = "execute" /\ call.name = EXPORT /\ ret = NotCalled

\* C20: export NAME=VALUE with a non-empty NAME sets NAME to VALUE without
\* one layer of surrounding matching quotes, in the table of the
\* EnvVarManager and in the process environment; export without argument,
\* with an argument without =, or with an empty NAME returns
\* InvalidArguments and changes neither.  (Stated as the claim states it;
\* a VALUE that is one quote character panics and the value of PATH is
\* rewritten.)
C20_ExportSetsBoth ==
    [][ExportCalled =>
        IF \/ call.args = <<>>
           \/ ~HasEquals(call.args[1])
           \/ NameOf(call.args[1]) = <<>>
        THEN /\ ret'.res = "Err"
             /\ ret'.err = "InvalidArguments"
             /\ env' = env
             /\ env_vars' = env_vars
        ELSE LET name  == NameOf(call.args[1])
                 value == Unquoted(ValueOf(call.args[1]))
             IN  /\ ret'.res = "Ok"
                 /\ env' = MapPut(env, name, value)
                 /\ env_vars' = MapPut(env_vars, name, value)]_vars

(***************************************************************************)
(* Claims about exit (checked under Spec)                                  *)
(***************************************************************************)
\* the positions of the log at which the exit built-in was dispatched
ExitDispatched ==
    {i \in 1..Len(log) : log[i].kind = "builtin" /\ log[i].argv[1] = EXIT}

\* once exit has been dispatched it is the last thing that happened and
\* the process is gone with status 0
C19_ExitIsLast ==
    \A i \in ExitDispatched :
        /\ i = Len(log)
        /\ phase = "exited"
        /\ exit_code = 0
        /\ idx = log[i].stage

Runnable(l) == Trim(l) # <<>> /\ Trim(l)[1] # "#"

SourceCalled ==
    /\ call.fn = "execute"
    /\ call.name = SOURCE
    /\ call.args # <<>>
    /\ Expand(call.args[1]) \in DOMAIN files
    /\ ret # NotCalled

\* the runnable lines of the file that was sourced
SourcedLines == SelectSeq(Lines(files[Expand(call.args[1])]), Runnable)

IsCdLine(l) == SplitWhitespace(l)[1] = CD

\* C21: source runs every runnable line of the file through the caller's
\* Dispatcher, so its built-ins take effect: when source returned Ok, a
\* line `export X=1` has left X = 1 in the environment and in the variable
\* table, and the working directory is the one the last `cd` line names.
\* (Stated as the claim states it; the executor a SourceCommand holds was
\* cloned while only cd was registered, so `export X=1` is handed to the
\* process spawner.)
C21_SourcedBuiltinsTakeEffect ==
    (SourceCalled /\ ret.res = "Ok") =>
        /\ (\E i \in 1..Len(SourcedLines) : Trim(SourcedLines[i]) = ExportLine)
               => /\ <<"X">> \in DOMAIN env /\ env[<<"X">>] = ONE
                  /\ <<"X">> \in DOMAIN env_vars /\ env_vars[<<"X">>] = ONE
        /\ \A i \in 1..Len(SourcedLines) :
               (/\ IsCdLine(SourcedLines[i])
                /\ \A j \in (i + 1)..Len(SourcedLines) :
                       ~IsCdLine(SourcedLines[j]))
               => cwd = Expand(SplitWhitespace(SourcedLines[i])[2])

\* the argument vector a stage typed at the prompt is executed with: the
\* alias of its command resolved, then the command and its arguments
TypedArgv(stage) ==
    LET r == Resolve(stage, cfgAliases)
    IN  <<r.command>> \o r.args

\* the argument vectors of the stages of a list of lines typed at the
\* prompt one after the other: each line expanded, parsed and resolved
RECURSIVE TypedArgvs(_)
TypedArgvs(lines) ==
    IF lines = <<>> THEN <<>>
    ELSE LET stages_ == Parse(expand_env_vars(Head(lines), env).text).stages
         IN  [k \in 1..Len(stages_) |-> TypedArgv(stages_[k])]
             \o TypedArgvs(Tail(lines))

\* the argument vectors of what ran inside the source call
SourcedArgvs == [k \in 1..(Len(log) - 1) |-> log[k + 1].argv]

\* C22: a runnable line of a sourced file is executed as if it had been
\* typed at the prompt: when source returned Ok, what ran inside it are the
\* stages of the lines, in order, each with its alias resolved, so `ls ; nox`
\* runs ls and then nox.  (Stated as the claim states it; source splits the
\* line at whitespace and hands it to the executor as one command.)
C22_SourcedLineRunsAsTyped ==
    (/\ SourceCalled
     /\ ret.res = "Ok"
     /\ \A i \in 1..Len(SourcedLines) : Parse(SourcedLines[i]).ok)
    => SourcedArgvs = TypedArgvs(SourcedLines)

(***************************************************************************)
(* Claims about the session (checked under Spec)                           *)
(***************************************************************************)
\* what execute_with_context returned when the stage loop is over
PipelineResult == IF result = "running" THEN "Ok" ELSE result

\* add_with_details is called in this step, with the line as it was typed
\* and with 0 for Ok and 1 for an error; whether it stored the entry or
\* failed, the line's result is the pipeline's
AddedOnce ==
    /\ Len(hist') = Len(hist) + 1
    /\ SubSeq(hist', 1, Len(hist)) = hist
    /\ hist'[Len(hist')].command = cmdline
    /\ hist'[Len(hist')].exit_code = (IF PipelineResult = "Ok" THEN 0 ELSE 1)
    /\ lastResult' = PipelineResult

\* C23: for every line that parsed into a pipeline add_with_details is
\* called exactly once, when the pipeline is over: the history changes only
\* in the step that ends a pipeline, and every pipeline that was started
\* ends with that step.  (Stated as the claim states it; a pipeline that
\* dispatches exit, or that panics, ends the process and its line is never
\* handed to the history.)
C23_HistoryAddedOncePerLine ==
    [][/\ (hist' # hist) => (phase = "exec" /\ phase' = "prompt" /\ AddedOnce)
       /\ (phase = "exec" /\ phase' # "exec") => AddedOnce]_vars

\* the loop of Shell::run is over: the process exited, the thread
\* panicked, a call never returns, or run returned
SessionOver == phase \notin {"prompt", "exec"}

\* C24: no failure of a command line ends the session: the loop of
\* Shell::run is left only when readline reports the end of input at the
\* prompt or when exit is dispatched, and whatever execute_command returns
\* leads back to the prompt.  (Stated as the claim states it; a line whose
\* alias has an empty value panics and takes the session with it.)
C24_LoopEndsOnlyOnEofOrExit ==
    [][(SessionOver' /\ ~SessionOver) =>
           \/ phase = "prompt" /\ phase' = "ended"
           \/ phase = "exec" /\ phase' = "exited" /\ exit_code' = ExitStatus]_vars

(***************************************************************************)
(* Claims about the process spawner (checked under SpecSpawn)              *)
(***************************************************************************)
\* a child is started in this step
ChildStarted == children' \ children # {}

\* a request returned to the stage loop in this step
RequestReturned == Len(Returned') > Len(Returned)

\* C25: at most one child of the shell is alive at any time: a child is
\* started only when no other child is alive and the thread is between two
\* requests, and a request returns to the stage loop only when its child
\* has exited, so the next stage or line never starts beside a running
\* child.
C25_NoTwoChildren == Cardinality(children) <= 1

C25_OneChildAtATime ==
    /\ []C25_NoTwoChildren
    /\ [][/\ ChildStarted => (children = {} /\ spawner = "idle")
          /\ RequestReturned => children' = {}]_vars

\* the second request's child is running while the shell is blocked in wait
C25_Witness ==
    /\ Len(Returned) = 1
    /\ children = {2}
    /\ spawner \in {"waiting", "collecting"}

\* C26: the no-op interrupt handler is installed after a successful spawn
\* and before the shell blocks in wait: whenever the thread is blocked in
\* child.wait() the handler is installed, the disposition changes only in
\* the step that follows a successful spawn, a handler once installed is
\* never taken off, and installing it again changes nothing.
C26_InstalledWhileWaiting == spawner = "waiting" => sigint = "handle_sigint"

C26_HandlerLifecycle ==
    /\ []C26_InstalledWhileWaiting
    /\ [][/\ sigint' # sigint => (spawner = "spawned" /\ spawner' = "waiting")
          /\ sigint = "handle_sigint" => sigint' = sigint]_vars

\* the handler is installed a second time, for the second child
C26_Witness ==
    /\ Len(Returned) = 1
    /\ ret.results[1] = "Ok"
    /\ spawner = "waiting"
    /\ child = 2
    /\ sigint = "handle_sigint"
    /\ log # <<>> /\ log[1].kind = "spawn" /\ log[1].outcome \in {"exit0", "exit1"}

\* the text has no stage for Pipeline::parse to return: it is blank, or a
\* command is missing before one of its operators, or nothing follows a
\* last | or &&
ParseFails(s) ==
    LET n == Cardinality(OpStarts(s))
    IN  \/ IsBlank(s)
        \/ \E k \in 1..n : IsBlank(Segment(s, k))
        \/ /\ n > 0
           /\ OperatorAt(s, KthOp(s, n)) \in {"Pipe", "And"}
           /\ IsBlank(Segment(s, n + 1))

\* execute_command is called in this step with a line that is not blank
\* and that does not parse once its variables are expanded
ParseFailureStep ==
    /\ nlines' = nlines + 1
    /\ ~IsBlank(cmdline')
    /\ ParseFails(expand_env_vars(cmdline', env).text)

\* C27: when parsing of a line fails execute_command returns the parse
\* error before any stage executes: the shell is back at the prompt in the
\* same step, nothing was run or spawned, and the alias tables, the
\* environment, the working directory and the files are unchanged.
C27_ParseFailureRunsNothing ==
    [][ParseFailureStep =>
           /\ lastResult' = "ParseError"
           /\ phase' = "prompt"
           /\ UNCHANGED <<log, stages, idx, cmdAliases, cfgAliases, env,
                          env_vars, cwd, current_dir, files, hist,
                          cmdHistory>>]_vars

\* the line `cd /d ; ls |` was refused after an earlier line had run, and
\* the shell is still in the directory it was in
C27_Witness ==
    /\ nlines = 2
    /\ cmdline = Line(<<CD, DIR, <<";">>, LS, <<"|">>>>)
    /\ lastResult = "ParseError"
    /\ phase = "prompt"
    /\ hist # <<>>
    /\ cwd = HOME

(***************************************************************************)
(* Blank input (checked under SpecParse)                                   *)
(***************************************************************************)
\* C28: for every input that is empty or consists only of whitespace
\* (spaces and tabs here), Pipeline::parse returns
\* ParseError("Empty pipeline").
C28_BlankIsEmptyPipeline ==
    (Parsed /\ \A i \in 1..Len(pline) : pline[i] \in WhiteSpace) =>
        /\ ~presult.ok
        /\ presult.err = "ParseError"
        /\ presult.msg = "Empty pipeline"

\* a space and a tab were parsed
C28_Witness ==
    /\ Parsed
    /\ pline = <<" ", "\t">>
    /\ presult.msg = "Empty pipeline"

(***************************************************************************)
(* The environment of child processes (checked under Spec)                 *)
(***************************************************************************)
IsChild(e) == e.kind \in {"spawn", "capture"}

\* export NAME=VALUE ran as a built-in and returned Ok
IsExport(e) ==
    /\ e.kind = "builtin"
    /\ e.argv[1] = EXPORT
    /\ Len(e.argv) >= 2
    /\ HasEquals(e.argv[2])
    /\ e.outcome = "Ok"

\* the effects this step added to those of the line
NewEffects == IF Len(log') > Len(log) THEN (Len(log) + 1)..Len(log') ELSE {}

\* C29: a child started after `export NAME=VALUE` succeeded receives
\* NAME=VALUE (VALUE without its surrounding quotes): every child is given
\* the process environment as it is when the child is started, a
\* successful export leaves NAME=VALUE in that environment, and within a
\* line every child started after the export carries it.  (Stated as the
\* claim states it; `export PATH=/a:/a` succeeds and the children receive
\* PATH=/a.)
C29_SameLine ==
    \A i \in 1..Len(log) : \A j \in (i + 1)..Len(log) :
        (/\ IsExport(log[i])
         /\ IsChild(log[j])
         /\ \A k \in (i + 1)..(j - 1) : ~IsExport(log[k]))
        => /\ NameOf(log[i].argv[2]) \in DOMAIN log[j].environ
           /\ log[j].environ[NameOf(log[i].argv[2])]
                  = Unquoted(ValueOf(log[i].argv[2]))

C29_ChildrenSeeExports ==
    /\ []C29_SameLine
    /\ [][\A k \in NewEffects :
             /\ IsChild(log'[k]) => log'[k].environ = env
             /\ IsExport(log'[k]) =>
                    /\ NameOf(log'[k].argv[2]) \in DOMAIN env'
                    /\ env'[NameOf(log'[k].argv[2])]
                           = Unquoted(ValueOf(log'[k].argv[2]))]_vars

(***************************************************************************)
(* Claims about the configuration loader (checked under SpecConfig)        *)
(***************************************************************************)
ConfigLoaded == call.fn = "load" /\ ret # NotCalled /\ ret.res = "Ok"

\* the names a block of the file exports
NamesIn(body, names) ==
    {n \in names : \E i \in 1..Len(body) : body[i] = ExportOf(n)}

\* the test of the if line holds (no line of the file sets A)
ConditionHolds ==
    IF call.cond = IfSet THEN <<"A">> \in DOMAIN env
    ELSE <<"A">> \notin DOMAIN env

\* C30: while the rc file is loaded, the lines between then and else/fi
\* take effect only when the condition holds, the lines between else and
\* fi only when it does not, and the lines after fi always.  (Stated as
\* the claim states it; source_if_exists goes on with the line after the
\* if line, so the lines of both blocks are processed whatever the
\* condition.)
C30_BlocksFollowCondition ==
    ConfigLoaded =>
        /\ \A n \in NamesIn(call.then_, ThenNames) :
               n \in DOMAIN env <=> ConditionHolds
        /\ \A n \in NamesIn(call.else_, ElseNames) :
               n \in DOMAIN env <=> ~ConditionHolds
        /\ \A n \in NamesIn(call.after, AfterNames) : n \in DOMAIN env


(***************************************************************************)
(* Missing executables in a pipeline (checked under SpecExec)              *)
(***************************************************************************)
\* this step started, or tried to start, a program that does not exist
StartsMissing ==
    \E k \in NewEffects :
        IsChild(log'[k]) /\ ProgramKind(log'[k].argv[1]) = "missing"

\* C31: a stage that names a nonexistent executable never makes the
\* pipeline return an error, whichever operator follows the stage: the loop
\* goes on with the stages that remain.  (Stated as the claim states it;
\* the Pipe and Redirect arms start the program with Command::output and
\* return its spawn error.)
C31_MissingProgramNeverFails ==
    [][(InLoop /\ StartsMissing) => (result' = "running" /\ idx' > idx)]_vars


(***************************************************************************)
(* Built-in names before a pipe (checked under SpecExec)                   *)
(***************************************************************************)
\* the stage the loop is at is followed by Pipe
AtPipeStage == InLoop /\ stages[idx].operator = "Pipe"

\* the stage the loop is at names a built-in
NamesBuiltin == stages[idx].command \in commands

\* C32: a stage whose operator is Pipe never invokes a built-in handler,
\* and a built-in name in such a stage leaves the working directory, the
\* environment (the process's and the EnvVarManager's table), the alias
\* table and the running state of the shell unchanged.
C32_PipeStageRunsNoBuiltin ==
    [][AtPipeStage =>
          /\ \A k \in NewEffects : log'[k].kind # "builtin"
          /\ NamesBuiltin =>
                 /\ UNCHANGED <<cwd, env, env_vars, cmdAliases, cfgAliases,
                                commands, exit_code>>
                 /\ phase' = "exec"]_vars

\* `cd /d | ls` has run its first stage: the shell is still in /h
C32_Witness ==
    /\ phase = "exec"
    /\ Len(stages) = 2
    /\ stages[1].command = CD
    /\ stages[1].args = <<DIR>>
    /\ stages[1].operator = "Pipe"
    /\ Len(log) = 1
    /\ log[1].argv = <<CD, DIR>>
    /\ log[1].kind = "capture"
    /\ cwd = HOME


(***************************************************************************)
(* Termination of expand_env_vars (checked under SpecExpand)               *)
(***************************************************************************)
\* C33: expand_env_vars terminates for every input string and every
\* environment, also when the value of a variable refers to the variable
\* itself or to a cycle of variables.  (Stated as the claim states it; the
\* loop scans the text it has just substituted, so a value that refers to
\* its own name is substituted for ever.)
C33_ExpansionTerminates == Expanded => ret.done


(***************************************************************************)
(* The pending buffer at the end of the stage loop (checked under SpecExec)*)
(***************************************************************************)
\* the stage loop has run past the last stage, or has left by `break`
LoopEnded == phase = "exec" /\ result = "running" /\ idx > Len(stages)

\* C34: for every pipeline accepted by parse, no captured output is pending
\* when the stage loop ends, so the final write to standard output never
\* has data to write: nothing is ever printed from the buffer.
C34_NothingPendingAtLoopEnd ==
    /\ LoopEnded => (~prev.some \/ prev.bytes = NoBytes)
    /\ \A k \in 1..Len(log) : log[k].kind # "print"

\* `ls | ls` has run to its end: the output captured from the first stage
\* was dropped by the second
C34_Witness ==
    /\ LoopEnded
    /\ Len(stages) = 2
    /\ stages[1].operator = "Pipe"
    /\ Len(log) = 2
    /\ log[1].kind = "capture"
    /\ log[1].out # NoBytes
    /\ prev = None


(***************************************************************************)
(* How often a stage is started (checked under SpecExec)                   *)
(***************************************************************************)
\* the programs started for stage k during this execution of the pipeline
StartsOf(k) == {i \in 1..Len(log) : IsChild(log[i]) /\ log[i].stage = k}

\* C35: during one execution of a pipeline each stage's command is started
\* at most once, the Pipe-terminated grep stage included.  (Stated as the
\* claim states it; the grep arm runs grep through the executor and then,
\* finding no output file, runs grep again to capture its output.)
C35_EachStageStartedOnce ==
    phase = "exec" => \A k \in 1..Len(stages) : Cardinality(StartsOf(k)) <= 1


(***************************************************************************)
(* The temporary file of a grep stage (checked under Spec)                 *)
(***************************************************************************)
\* C36: whenever execute_with_context has returned, with Ok or with an
\* error, the temporary input file it created for a grep stage has been
\* removed.  (Stated as the claim states it; the file is removed only at
\* the end of the grep arm, which an error leaves with `?`.)
C36_TempInputRemoved == phase = "prompt" => temp_input \notin DOMAIN files


(***************************************************************************)
(* Alias resolution in the executor (checked under SpecExec)               *)
(***************************************************************************)
\* the line `alias NAME='VALUE'` of an rc file
AliasLine(name, value) ==
    ALIAS \o <<" ">> \o name \o <<"=", "'">> \o value \o <<"'">>

\* an rc file: alias ll='ls -la', alias ls='ls -F', alias x='nox', alias e=''
RcAliasLines ==
    <<AliasLine(LL, <<"l", "s", " ", "-", "l", "a">>),
      AliasLine(LS, <<"l", "s", " ", "-", "F">>),
      AliasLine(X, NOX),
      AliasLine(E, <<>>)>>

\* the alias table the configuration loader builds from that file
LoadedAliases ==
    source_if_exists(RcAliasLines, Loaded("Ok", InitEnv, EmptyMap),
                     RcAliasLines).aliases

\* C37: alias resolution in the executor never fails or panics, for any
\* alias table the configuration loader can build, an alias with an empty
\* value included: the resolved stage always has a command token.  (Stated
\* as the claim states it; the loader stores `alias e=''` with the empty
\* value and expanded_parts[0] is then out of range.)
C37_ResolutionNeverPanics ==
    (cfgAliases = LoadedAliases /\ InLoop) =>
        /\ ~Resolve(stages[idx], cfgAliases).panic
        /\ Resolve(stages[idx], cfgAliases).command # <<>>


(***************************************************************************)
(* The directory shown in the prompt (checked under Spec)                  *)
(***************************************************************************)
\* C38: at every prompt the shell's recorded current_dir equals the working
\* directory of the process, after any sequence of lines, a line in which
\* an earlier stage's cd succeeded and a later stage failed included.
\* (Stated as the claim states it; current_dir is refreshed only when the
\* pipeline returned Ok.)
C38_PromptShowsWorkingDirectory == phase = "prompt" => current_dir = cwd


(***************************************************************************)
(* Claims about the history (checked under SpecHistory)                    *)
(***************************************************************************)
\* q is what is left of p after entries were taken from its front
IsSuffix(q, p) ==
    Len(q) <= Len(p) /\ q = SubSeq(p, Len(p) - Len(q) + 1, Len(p))

\* C39: in every reachable state of History, from construction over an
\* existing history file through any sequence of add_with_details,
\* delete_at and clear, the number of entries in memory is at most
\* max_entries, and entries are evicted oldest first.  (Stated as the claim
\* states it; History::new keeps every entry of the file.)
C39_AtMostMaxEntries ==
    /\ [](Len(cmdHistory) <= MaxEntries)
    /\ [][(call'[1] = "add_with_details" /\ ret'.res = "Ok") =>
              IsSuffix(cmdHistory',
                       Append(cmdHistory,
                              new_command(call'[2], call'[3], call'[4],
                                          call'[5])))]_vars

\* C40: the history file and the history in memory agree: after any
\* sequence of add_with_details, delete_at and clear, loading the file
\* again yields exactly the entries in memory, in order, with the same
\* command, timestamp, exit code and duration, also for commands that
\* contain `|`.  (Stated as the claim states it; clear and the eviction
\* leave the file as it is, delete_at appends to it, and a command with a
\* `|` is read back as a line of too many fields.)
C40_FileAgreesWithMemory ==
    \E now \in Times :
        load_entries(files, now) = [ok |-> TRUE, entries |-> cmdHistory]

====
